---- MODULE Spec2Model ----
(***************************************************************************)
(* Model of the multi-scale encoders of quantnn                            *)
(* (src/quantnn/models/pytorch/encoders.py).                               *)
(*                                                                         *)
(* Python lists are modelled as sequences, so a stage index i of the model *)
(* (1..n_stages) is the index i-1 of the source.  Block indices (the       *)
(* block_index keyword handed to the block factory) keep the 0-based value *)
(* of the source.  Python's None is modelled by 0 for a downsampling       *)
(* factor and by NoneT for a tensor.                                       *)
(*                                                                         *)
(* A tensor is a record [chans, div, hist]: its number of channels, the    *)
(* factor by which its spatial extent is smaller than that of the          *)
(* (post-stem) input of the encoder, and the units that produced it.       *)
(***************************************************************************)
EXTENDS Integers, Sequences, FiniteSets, TLC

\* Bounds of the model: the number of stages of a SpatialEncoder and of a
\* MultiInputSpatialEncoder, the depth of a stage, the number of inputs of
\* a multi-input encoder, and the values the other arguments are drawn from.
MaxStages == 3
MaxMultiStages == 2
MaxDepth == 2
MaxInputs == 2
ChannelValues == {1, 2}
FactorValues == {1, 2, 3}
BaseScales == {1, 2}
InputScales == {1, 2, 3}

VARIABLES
    cls,        \* the class whose constructor has been called ("none" before)
    cfg,        \* the arguments of the constructor call
    enc,        \* the fields of the constructed encoder
    calls,      \* the factory calls made by the constructor, in order
    plain,      \* the last call forward(x, return_skips=False) and its outcome
    withSkips   \* the last call forward(x, return_skips=True) and its outcome

vars == <<cls, cfg, enc, calls, plain, withSkips>>

----------------------------------------------------------------------------
\* Tensors and the units produced by the factories.

Op(name, i, k, args) == [op |-> name, i |-> i, k |-> k, args |-> args]

\* Python's None where a tensor is expected.
NoneT == [chans |-> 0, div |-> 0, hist |-> <<>>]
\* The outcome of a unit that raised.
ErrT == [chans |-> -1, div |-> 0, hist |-> <<>>]

IsNone(t) == t.chans = 0
IsErr(t) == t.chans = -1

InputTensor(idx, c, d) ==
    [chans |-> c, div |-> d, hist |-> <<Op("input", idx, 0, <<>>)>>]

Event(unit, i, inp, out) == [unit |-> unit, i |-> i, inp |-> inp, out |-> out]

\* A block built by block_factory(channels_in, channels_out, downsample=...,
\* block_index=...): maps channels_in channels to channels_out channels and
\* reduces the spatial extent by 'downsample' (0: None, no downsampling).
ApplyBlock(b, t) ==
    IF IsNone(t) \/ IsErr(t) \/ t.chans # b.cin
    THEN ErrT
    ELSE [chans |-> b.cout,
          div |-> t.div * (IF b.down = 0 THEN 1 ELSE b.down),
          hist |-> Append(t.hist, Op("block", b.i, b.k, <<>>))]

\* nn.Sequential: the blocks in order; the empty sequence returns its input.
RECURSIVE ApplySequential(_, _)
ApplySequential(blocks, t) ==
    IF blocks = <<>>
    THEN t
    ELSE ApplySequential(Tail(blocks), ApplyBlock(Head(blocks), t))

\* A downsampler built by downsampler_factory(channels_in, channels_out, f),
\* or nn.Identity.
ApplyDownsampler(d, t) ==
    IF d.kind = "Identity"
    THEN t
    ELSE IF IsNone(t) \/ IsErr(t) \/ t.chans # d.cin
    THEN ErrT
    ELSE [chans |-> d.cout,
          div |-> t.div * d.f,
          hist |-> Append(t.hist, Op("down", d.i, 0, <<>>))]

\* A stem built by stem_factory(channels_out), or nn.Identity.
ApplyStem(s, t) ==
    IF s.kind = "Identity"
    THEN t
    ELSE [chans |-> s.cout,
          div |-> t.div,
          hist |-> Append(t.hist, Op("stem", s.i, 0, <<>>))]

\* An aggregator built by aggregator_factory(channel_counts, channels_out),
\* called with the tensors ts.
ApplyAggregator(a, ts) ==
    [chans |-> a.cout,
     div |-> ts[1].div,
     hist |-> <<Op("agg", a.scale, Len(ts), [j \in 1..Len(ts) |-> ts[j].hist])>>]

----------------------------------------------------------------------------
\* Construction.

Call(factory, cin, cout, down, i, k, cins) ==
    [factory |-> factory, cin |-> cin, cout |-> cout, down |-> down,
     i |-> i, k |-> k, cins |-> cins]

\* Variant: a stage is given at least one block.
SequentialStageFactory_call_nonempty(channels_in, channels_out, n_blocks, downsample, i) ==
    [k \in 1..(IF n_blocks = 0 THEN 1 ELSE n_blocks) |->
        [cin |-> IF k = 1 THEN channels_in ELSE channels_out,
         cout |-> channels_out,
         down |-> IF k = 1 THEN downsample ELSE 0,
         i |-> i,
         k |-> k - 1]]

\* SequentialStageFactory.__call__ for stage i: the blocks it builds.  Block
\* k (0-based block_index) is built with channels_in and downsample for the
\* first block, channels_out and None for the later ones.
SequentialStageFactory_call(channels_in, channels_out, n_blocks, downsample, i) ==
    [k \in 1..n_blocks |->
        [cin |-> IF k = 1 THEN channels_in ELSE channels_out,
         cout |-> channels_out,
         down |-> IF k = 1 THEN downsample ELSE 0,
         i |-> i,
         k |-> k - 1]]

\* The block-factory calls made for a stage, in order.
BlockCalls(blocks) ==
    [k \in 1..Len(blocks) |->
        Call("block", blocks[k].cin, blocks[k].cout, blocks[k].down,
             blocks[k].i, blocks[k].k, <<>>)]

RECURSIVE calculate_output_scales_from(_, _, _)
calculate_output_scales_from(scl, downsampling_factors, k) ==
    IF k > Len(downsampling_factors)
    THEN <<>>
    ELSE <<downsampling_factors[k] * scl>>
         \o calculate_output_scales_from(downsampling_factors[k] * scl,
                                         downsampling_factors, k + 1)

\* Variant: each scale is appended before it is multiplied by the factor.
calculate_output_scales_late(base_scale, downsampling_factors) ==
    LET scales == calculate_output_scales_from(base_scale, downsampling_factors, 1)
    IN  IF scales = <<>>
        THEN <<>>
        ELSE <<base_scale>> \o SubSeq(scales, 1, Len(scales) - 1)

calculate_output_scales(base_scale, downsampling_factors) ==
    calculate_output_scales_from(base_scale, downsampling_factors, 1)

IdentityDown(i) == [kind |-> "Identity", cin |-> 0, cout |-> 0, f |-> 1, i |-> i]

\* The loop of SpatialEncoder.__init__ that populates self.downsamplers and
\* self.stages, from stage i on; acc carries the lists built so far, the
\* factory calls made and channels_in.
RECURSIVE PopulateStages(_, _, _, _, _)
PopulateStages(c, scales, factors, i, acc) ==
    IF \/ i > Len(scales) \/ i > Len(c.stage_depths)
       \/ i > Len(c.channels) \/ i > Len(factors)
    THEN acc
    ELSE
        LET stage_depth == c.stage_depths[i]
            channels_out == c.channels[i]
            f_dwn == factors[i]
            channels_in == acc.channels_in
        IN  IF ~c.downsampler_factory
            THEN
                LET stage == SequentialStageFactory_call(
                                 channels_in, channels_out, stage_depth, f_dwn, i)
                IN  PopulateStages(c, scales, factors, i + 1,
                        [downsamplers |-> Append(acc.downsamplers, IdentityDown(i)),
                         stages |-> Append(acc.stages, stage),
                         calls |-> acc.calls
                              \o <<Call("stage", channels_in, channels_out,
                                        f_dwn, i, stage_depth, <<>>)>>
                              \o BlockCalls(stage),
                         channels_in |-> channels_out])
            ELSE
                LET stage == SequentialStageFactory_call(
                                 channels_out, channels_out, stage_depth, 0, i)
                    down == IF f_dwn > 1
                            THEN [kind |-> "Downsampler", cin |-> channels_in,
                                  cout |-> channels_out, f |-> f_dwn, i |-> i]
                            ELSE IdentityDown(i)
                    downCalls == IF f_dwn > 1
                                 THEN <<Call("downsampler", channels_in,
                                             channels_out, f_dwn, i, 0, <<>>)>>
                                 ELSE <<>>
                IN  PopulateStages(c, scales, factors, i + 1,
                        [downsamplers |-> Append(acc.downsamplers, down),
                         stages |-> Append(acc.stages, stage),
                         calls |-> acc.calls
                              \o downCalls
                              \o <<Call("stage", channels_out, channels_out,
                                        0, i, stage_depth, <<>>)>>
                              \o BlockCalls(stage),
                         channels_in |-> channels_out])

NoStem == [kind |-> "None", cout |-> 0, i |-> 0]

\* The fields of an encoder; a constructor that raised leaves no object.
NoEncoder(status) ==
    [status |-> status, n_stages |-> 0, channels |-> <<>>, base_scale |-> 0,
     scales |-> <<>>, downsamplers |-> <<>>, stages |-> <<>>, stem |-> NoStem,
     aggregate_after |-> FALSE, stems |-> <<>>, stage_inputs |-> <<>>,
     aggregators |-> <<>>]

\* "if not len(channels) == self.n_stages"
ChannelsMismatch(channels, n_stages) == ~(Len(channels) = n_stages)

\* Variant: only a list of factors that is too long is rejected.
FactorsMismatch_less(stage_depths, downsampling_factors) ==
    Len(stage_depths) < Len(downsampling_factors) + 1

\* "if len(stage_depths) != len(downsampling_factors) + 1"
FactorsMismatch(stage_depths, downsampling_factors) ==
    Len(stage_depths) # Len(downsampling_factors) + 1

\* SpatialEncoder.__init__(channels, stage_depths, downsampling_factors,
\* block_factory, stage_factory, downsampler_factory, stem_factory,
\* base_scale).  c.factors_none says that downsampling_factors is None,
\* use_stem that a stem factory is given.  The result is the pair of the
\* object and the factory calls made.
SpatialEncoder_init(c, use_stem) ==
    LET n_stages == Len(c.stage_depths)
        given == IF c.factors_none
                 THEN [j \in 1..(n_stages - 1) |-> 2]
                 ELSE c.downsampling_factors
    IN  IF ChannelsMismatch(c.channels, n_stages)
        THEN [enc |-> NoEncoder("ValueError"), calls |-> <<>>]
        ELSE IF FactorsMismatch(c.stage_depths, given)
        THEN [enc |-> NoEncoder("ValueError"), calls |-> <<>>]
        ELSE
            LET factors == <<1>> \o given
                scales == calculate_output_scales(c.base_scale, factors)
                built == PopulateStages(c, scales, factors, 1,
                             [downsamplers |-> <<>>, stages |-> <<>>,
                              calls |-> <<>>, channels_in |-> c.channels[1]])
                stem == IF use_stem
                        THEN [kind |-> "Stem", cout |-> c.channels[1], i |-> 0]
                        ELSE NoStem
                stemCalls == IF use_stem
                             THEN <<Call("stem", 0, c.channels[1], 0, 0, 0, <<>>)>>
                             ELSE <<>>
            IN  [enc |-> [NoEncoder("ok") EXCEPT
                            !.n_stages = n_stages,
                            !.channels = c.channels,
                            !.base_scale = c.base_scale,
                            !.scales = scales,
                            !.downsamplers = built.downsamplers,
                            !.stages = built.stages,
                            !.stem = stem],
                 calls |-> built.calls \o stemCalls]

\* The keys of a dict filled in the order of the sequence s.
RECURSIVE DictKeys(_)
DictKeys(s) ==
    IF s = <<>>
    THEN <<>>
    ELSE LET front == DictKeys(SubSeq(s, 1, Len(s) - 1))
             last == s[Len(s)]
         IN  IF \E j \in 1..Len(front) : front[j] = last
             THEN front
             ELSE Append(front, last)

SeqRange(s) == {s[j] : j \in 1..Len(s)}

\* {k: v for k, v in zip(keys, values)}: a later entry replaces an earlier one.
ZipDict(keys, values) ==
    [k \in SeqRange(keys) |->
        values[CHOOSE j \in 1..Len(keys) :
                   /\ keys[j] = k
                   /\ \A l \in (j + 1)..Len(keys) : keys[l] # k]]

\* SpatialEncoder.skip_connections
skip_connections(e) == ZipDict(e.scales, e.channels)


\* The mapping k -> v extended (or overwritten) at key k.
DictSet(d, k, v) == [j \in (DOMAIN d) \cup {k} |-> IF j = k THEN v ELSE d[j]]

\* MultiInputSpatialEncoder.__init__: the loop creating the aggregators,
\* over enumerate(self.stage_inputs.items()); keys are the dict's keys in
\* order, p the position in them (ind = p - 1 in the source).
RECURSIVE CreateAggregators(_, _, _, _, _)
CreateAggregators(c, keys, stage_inputs, p, acc) ==
    IF p > Len(keys) \/ acc.status # "ok"
    THEN acc
    ELSE
        LET scale == keys[p]
            names == stage_inputs[scale]
        IN  IF scale > c.base_scale
            THEN CreateAggregators(c, keys, stage_inputs, p + 1,
                    [status |-> "ok",
                     aggregators |-> DictSet(acc.aggregators, scale,
                         [cins |-> [j \in 1..(Len(names) + 1) |-> c.channels[p]],
                          cout |-> c.channels[p], scale |-> scale]),
                     calls |-> Append(acc.calls,
                         Call("aggregator", 0, c.channels[p], 0, p, 0,
                              [j \in 1..(Len(names) + 1) |-> c.channels[p]]))])
            ELSE IF Len(names) > 1
            THEN \* channels[scale]: the list indexed by the scale itself
                 IF scale + 1 > Len(c.channels)
                 THEN [acc EXCEPT !.status = "IndexError"]
                 ELSE CreateAggregators(c, keys, stage_inputs, p + 1,
                        [status |-> "ok",
                         aggregators |-> DictSet(acc.aggregators, scale,
                             [cins |-> [j \in 1..Len(names) |-> c.channels[scale + 1]],
                              cout |-> c.channels[p], scale |-> scale]),
                         calls |-> Append(acc.calls,
                             Call("aggregator", 0, c.channels[p], 0, p, 0,
                                  [j \in 1..Len(names) |-> c.channels[scale + 1]]))])
            ELSE CreateAggregators(c, keys, stage_inputs, p + 1, acc)

\* Variant: the lists of all scales are one shared list.
NamesAt_shared(inputs, n, s) == [k \in 1..n |-> k]

\* The names (1..Len(inputs), in the order of the inputs dict) of the first
\* n inputs that are declared at scale s.
RECURSIVE NamesAt(_, _, _)
NamesAt(inputs, n, s) ==
    IF n = 0
    THEN <<>>
    ELSE IF inputs[n] = s
    THEN Append(NamesAt(inputs, n - 1, s), n)
    ELSE NamesAt(inputs, n - 1, s)

\* Variant: the flag is set when a downsampler factory is given.
AggregateAfter_swapped(downsampler_factory) == downsampler_factory

\* "if downsampler_factory is None: self.aggregate_after = True; else: False"
AggregateAfter(downsampler_factory) == ~downsampler_factory

\* MultiInputSpatialEncoder.__init__(inputs, channels, stage_depths, ...).
\* c.inputs is the inputs dict in insertion order: input k (its name) is
\* declared at scale c.inputs[k].
MultiInputSpatialEncoder_init(c) ==
    LET sup == SpatialEncoder_init(c, FALSE)
    IN  IF sup.enc.status # "ok"
        THEN sup
        ELSE
            LET e == sup.enc
                scale_channels == ZipDict(e.scales, c.channels)
                bad == {k \in 1..Len(c.inputs) : c.inputs[k] \notin SeqRange(e.scales)}
                \* the inputs handled before the loop raises (all if it does not)
                n_done == IF bad = {}
                          THEN Len(c.inputs)
                          ELSE (CHOOSE k \in bad : \A l \in bad : k <= l) - 1
                stems == [k \in 1..n_done |->
                            IF c.stem_factories_none
                            THEN [kind |-> "Identity", cout |-> 0, i |-> k]
                            ELSE [kind |-> "Stem",
                                  cout |-> scale_channels[c.inputs[k]], i |-> k]]
                stemCalls == [k \in 1..n_done |->
                                Call("stem", 0, scale_channels[c.inputs[k]],
                                     0, k, 0, <<>>)]
                stage_inputs == [s \in SeqRange(e.scales) |->
                                    NamesAt(c.inputs, n_done, s)]
            IN  IF bad # {}
                THEN [enc |-> NoEncoder("ValueError"),
                      calls |-> sup.calls \o stemCalls]
                ELSE
                    LET aggs == CreateAggregators(c, DictKeys(e.scales),
                                    stage_inputs, 1,
                                    [status |-> "ok", aggregators |-> <<>>,
                                     calls |-> <<>>])
                    IN  IF aggs.status # "ok"
                        THEN [enc |-> NoEncoder(aggs.status),
                              calls |-> sup.calls \o stemCalls \o aggs.calls]
                        ELSE [enc |-> [e EXCEPT
                                        !.aggregate_after =
                                            AggregateAfter(c.downsampler_factory),
                                        !.stems = stems,
                                        !.stage_inputs = stage_inputs,
                                        !.aggregators = aggs.aggregators],
                              calls |-> sup.calls \o stemCalls \o aggs.calls]

----------------------------------------------------------------------------
\* Forward passes.  A loop carries st = [y, skips, trace, err]: the tensor
\* propagated so far, the skips recorded, the units executed (and, as "skip"
\* events, the assignments skips[scale] = y) and whether a unit raised (which
\* ends the call).

Raised(st, trace) == [y |-> ErrT, skips |-> st.skips, trace |-> trace, err |-> TRUE]

\* Variant: the skip of a stage is recorded before the stage has run.
RECURSIVE SpatialEncoder_forward_with_skips_early(_, _, _)
SpatialEncoder_forward_with_skips_early(e, i, st) ==
    IF i > Len(e.scales) \/ i > Len(e.downsamplers) \/ i > Len(e.stages) \/ st.err
    THEN st
    ELSE
        LET d == ApplyDownsampler(e.downsamplers[i], st.y)
            tr1 == Append(st.trace, Event("down", i, <<st.y>>, d))
            y == ApplySequential(e.stages[i], d)
            tr2 == Append(tr1, Event("stage", i, <<d>>, y))
        IN  IF IsErr(d)
            THEN Raised(st, st.trace)
            ELSE IF IsErr(y)
            THEN Raised(st, tr1)
            ELSE SpatialEncoder_forward_with_skips_early(e, i + 1,
                    [y |-> y, skips |-> DictSet(st.skips, e.scales[i], d),
                     trace |-> Append(tr2, Event("skip", i, <<d>>, d)),
                     err |-> FALSE])

\* SpatialEncoder.forward_with_skips: the loop, from stage i on.
RECURSIVE SpatialEncoder_forward_with_skips(_, _, _)
SpatialEncoder_forward_with_skips(e, i, st) ==
    IF i > Len(e.scales) \/ i > Len(e.downsamplers) \/ i > Len(e.stages) \/ st.err
    THEN st
    ELSE
        LET d == ApplyDownsampler(e.downsamplers[i], st.y)
            tr1 == Append(st.trace, Event("down", i, <<st.y>>, d))
            y == ApplySequential(e.stages[i], d)
            tr2 == Append(tr1, Event("stage", i, <<d>>, y))
        IN  IF IsErr(d)
            THEN Raised(st, st.trace)
            ELSE IF IsErr(y)
            THEN Raised(st, tr1)
            ELSE SpatialEncoder_forward_with_skips(e, i + 1,
                    [y |-> y, skips |-> DictSet(st.skips, e.scales[i], y),
                     trace |-> Append(tr2, Event("skip", i, <<y>>, y)),
                     err |-> FALSE])

\* SpatialEncoder.forward: the loop of the branch without skips.
RECURSIVE SpatialEncoder_forward_loop(_, _, _)
SpatialEncoder_forward_loop(e, i, st) ==
    IF i > Len(e.downsamplers) \/ i > Len(e.stages) \/ st.err
    THEN st
    ELSE
        LET d == ApplyDownsampler(e.downsamplers[i], st.y)
            tr1 == Append(st.trace, Event("down", i, <<st.y>>, d))
            y == ApplySequential(e.stages[i], d)
            tr2 == Append(tr1, Event("stage", i, <<d>>, y))
        IN  IF IsErr(d)
            THEN Raised(st, st.trace)
            ELSE IF IsErr(y)
            THEN Raised(st, tr1)
            ELSE SpatialEncoder_forward_loop(e, i + 1,
                    [y |-> y, skips |-> st.skips, trace |-> tr2, err |-> FALSE])

\* What a forward call returns: the tensor (return_skips false) or the
\* dict of skips (return_skips true), with the units it executed.
Outcome(x, return_skips, st) ==
    [called |-> TRUE, x |-> x,
     status |-> IF st.err THEN "error" ELSE "ok",
     y |-> IF return_skips \/ st.err THEN NoneT ELSE st.y,
     skips |-> IF return_skips /\ ~st.err THEN st.skips ELSE <<>>,
     trace |-> st.trace]

NoCall == [called |-> FALSE, x |-> <<>>, status |-> "none", y |-> NoneT,
           skips |-> <<>>, trace |-> <<>>]

\* Variant: the stem is applied only when the skips are asked for.
SpatialEncoder_forward_stem_in_skips_only(e, x, return_skips) ==
    LET x1 == IF e.stem.kind # "None" THEN ApplyStem(e.stem, x) ELSE x
        tr0 == IF e.stem.kind # "None"
               THEN <<Event("stem", 0, <<x>>, x1)>>
               ELSE <<>>
        st0 == [y |-> x1, skips |-> <<>>, trace |-> tr0, err |-> FALSE]
        st1 == [y |-> x, skips |-> <<>>, trace |-> <<>>, err |-> FALSE]
    IN  IF return_skips
        THEN Outcome(<<x>>, TRUE, SpatialEncoder_forward_with_skips(e, 1, st0))
        ELSE Outcome(<<x>>, FALSE, SpatialEncoder_forward_loop(e, 1, st1))

\* SpatialEncoder.forward(x, return_skips)
SpatialEncoder_forward(e, x, return_skips) ==
    LET x1 == IF e.stem.kind # "None" THEN ApplyStem(e.stem, x) ELSE x
        tr0 == IF e.stem.kind # "None"
               THEN <<Event("stem", 0, <<x>>, x1)>>
               ELSE <<>>
        st0 == [y |-> x1, skips |-> <<>>, trace |-> tr0, err |-> FALSE]
    IN  IF return_skips
        THEN Outcome(<<x>>, TRUE, SpatialEncoder_forward_with_skips(e, 1, st0))
        ELSE Outcome(<<x>>, FALSE, SpatialEncoder_forward_loop(e, 1, st0))


\* "Collect inputs": the stems of the inputs registered at the scale,
\* applied to the tensors of the mapping x.
CollectInputs(e, x, scale) ==
    LET names == e.stage_inputs[scale]
    IN  [j \in 1..Len(names) |-> ApplyStem(e.stems[names[j]], x[names[j]])]

CollectEvents(e, x, scale) ==
    LET names == e.stage_inputs[scale]
    IN  [j \in 1..Len(names) |->
            Event("stem", names[j], <<x[names[j]]>>,
                  ApplyStem(e.stems[names[j]], x[names[j]]))]

\* MultiInputSpatialEncoder.forward_with_skips: the loop, from stage i on.
RECURSIVE MultiInputSpatialEncoder_forward_with_skips(_, _, _, _)
MultiInputSpatialEncoder_forward_with_skips(e, x, i, st) ==
    IF i > Len(e.scales) \/ i > Len(e.downsamplers) \/ i > Len(e.stages) \/ st.err
    THEN st
    ELSE
        LET scale == e.scales[i]
            stage == e.stages[i]
            \* Apply downsampling
            y1 == ApplyDownsampler(e.downsamplers[i], st.y)
            tr1 == Append(st.trace, Event("down", i, <<st.y>>, y1))
            \* Collect inputs
            agg_inputs == CollectInputs(e, x, scale)
            tr2 == tr1 \o CollectEvents(e, x, scale)
            \* Aggregate and propagate through stage
            before == ~IsNone(y1) /\ e.aggregate_after
            y2 == IF before THEN ApplySequential(stage, y1) ELSE y1
            tr3 == IF before
                   THEN Append(tr2, Event("stage", i, <<y1>>, y2))
                   ELSE tr2
            y3 == IF Len(agg_inputs) > 1
                  THEN ApplyAggregator(e.aggregators[scale], agg_inputs)
                  ELSE IF Len(agg_inputs) = 1
                  THEN agg_inputs[1]
                  ELSE y2
            tr4 == IF Len(agg_inputs) > 1
                   THEN Append(tr3, Event("agg", i, agg_inputs, y3))
                   ELSE tr3
            y4 == IF ~e.aggregate_after THEN ApplySequential(stage, y3) ELSE y3
            tr5 == IF ~e.aggregate_after
                   THEN Append(tr4, Event("stage", i, <<y3>>, y4))
                   ELSE tr4
        IN  IF IsErr(y1)
            THEN Raised(st, st.trace)
            ELSE IF IsErr(y2)
            THEN Raised(st, tr2)
            ELSE IF IsErr(y4)
            THEN Raised(st, tr4)
            ELSE MultiInputSpatialEncoder_forward_with_skips(e, x, i + 1,
                    [y |-> y4, skips |-> DictSet(st.skips, scale, y4),
                     trace |-> Append(tr5, Event("skip", i, <<y4>>, y4)),
                     err |-> FALSE])

\* MultiInputSpatialEncoder.forward: the loop of the branch without skips.
RECURSIVE MultiInputSpatialEncoder_forward_loop(_, _, _, _)
MultiInputSpatialEncoder_forward_loop(e, x, i, st) ==
    IF i > Len(e.scales) \/ i > Len(e.downsamplers) \/ i > Len(e.stages) \/ st.err
    THEN st
    ELSE
        LET scale == e.scales[i]
            stage == e.stages[i]
            y1 == ApplyDownsampler(e.downsamplers[i], st.y)
            tr1 == Append(st.trace, Event("down", i, <<st.y>>, y1))
            agg_inputs == CollectInputs(e, x, scale)
            tr2 == tr1 \o CollectEvents(e, x, scale)
            before == ~IsNone(y1) /\ e.aggregate_after
            y2 == IF before THEN ApplySequential(stage, y1) ELSE y1
            tr3 == IF before
                   THEN Append(tr2, Event("stage", i, <<y1>>, y2))
                   ELSE tr2
            y3 == IF Len(agg_inputs) > 1
                  THEN ApplyAggregator(e.aggregators[scale], agg_inputs)
                  ELSE IF Len(agg_inputs) = 1
                  THEN agg_inputs[1]
                  ELSE y2
            tr4 == IF Len(agg_inputs) > 1
                   THEN Append(tr3, Event("agg", i, agg_inputs, y3))
                   ELSE tr3
            y4 == IF ~e.aggregate_after THEN ApplySequential(stage, y3) ELSE y3
            tr5 == IF ~e.aggregate_after
                   THEN Append(tr4, Event("stage", i, <<y3>>, y4))
                   ELSE tr4
        IN  IF IsErr(y1)
            THEN Raised(st, st.trace)
            ELSE IF IsErr(y2)
            THEN Raised(st, tr2)
            ELSE IF IsErr(y4)
            THEN Raised(st, tr4)
            ELSE MultiInputSpatialEncoder_forward_loop(e, x, i + 1,
                    [y |-> y4, skips |-> st.skips, trace |-> tr5, err |-> FALSE])

\* isinstance(x, dict).  A dict of tensors holds the tensor of input k under
\* name k; a tensor handed over in place of a dict is input 0, as it is for
\* SpatialEncoder, and x is the one-element list of it.
IsDict(x) == \A k \in 1..Len(x) : x[k].hist[1].i = k

\* Variant: the type of x is checked only after the first stem has run.
MultiInputSpatialEncoder_forward_late(e, x, return_skips) ==
    LET st0 == [y |-> NoneT, skips |-> <<>>, trace |-> <<>>, err |-> FALSE]
    IN  IF ~IsDict(x)
        THEN [Outcome(x, return_skips,
                      Raised(st0, <<Event("stem", 1, x, x[1])>>))
                EXCEPT !.status = "ValueError"]
        ELSE IF return_skips
        THEN Outcome(x, TRUE,
                     MultiInputSpatialEncoder_forward_with_skips(e, x, 1, st0))
        ELSE Outcome(x, FALSE,
                     MultiInputSpatialEncoder_forward_loop(e, x, 1, st0))

\* MultiInputSpatialEncoder.forward(x, return_skips).
MultiInputSpatialEncoder_forward(e, x, return_skips) ==
    LET st0 == [y |-> NoneT, skips |-> <<>>, trace |-> <<>>, err |-> FALSE]
    IN  IF ~IsDict(x)
        THEN [Outcome(x, return_skips, Raised(st0, <<>>))
                EXCEPT !.status = "ValueError"]
        ELSE IF return_skips
        THEN Outcome(x, TRUE,
                     MultiInputSpatialEncoder_forward_with_skips(e, x, 1, st0))
        ELSE Outcome(x, FALSE,
                     MultiInputSpatialEncoder_forward_loop(e, x, 1, st0))

----------------------------------------------------------------------------
\* The state machine: one constructor call, then forward calls.

SeqsUpTo(S, lo, hi) == UNION {[1..n -> S] : n \in lo..hi}

Config(channels, stage_depths, factors, factors_none, downsampler_factory, stem_factory, base_scale, inputs, stem_factories_none) ==
    [channels |-> channels, stage_depths |-> stage_depths,
     downsampling_factors |-> factors, factors_none |-> factors_none,
     downsampler_factory |-> downsampler_factory,
     stem_factory |-> stem_factory, base_scale |-> base_scale,
     inputs |-> inputs, stem_factories_none |-> stem_factories_none]

NoConfig == Config(<<>>, <<>>, <<>>, FALSE, FALSE, FALSE, 0, <<>>, FALSE)

\* The lists channels, stage_depths and downsampling_factors (None, or a
\* list) of a constructor call whose lengths agree, for up to maxn stages.
MatchingArgs(maxn) ==
    UNION {
        {<<channels, stage_depths, fa>> :
            channels \in [1..n -> ChannelValues],
            stage_depths \in [1..n -> 0..MaxDepth],
            fa \in {<<TRUE, <<>> >>}
                     \cup {<<FALSE, f>> : f \in [1..(n - 1) -> FactorValues]}}
        : n \in 1..maxn}

\* The same lists with lengths that do not agree.  The constructor raises
\* on the lengths alone, so one list of each length stands for all.
MismatchedArgs(maxn) ==
    {<<[j \in 1..lc |-> 1], [j \in 1..n |-> 1], <<FALSE, [j \in 1..lf |-> 2]>> >> :
        lc \in 1..maxn, n \in 1..maxn, lf \in 0..maxn}
    \cup {<<[j \in 1..lc |-> 1], [j \in 1..n |-> 1], <<TRUE, <<>> >> >> :
        lc \in 1..maxn, n \in 1..maxn}

ListArgs(maxn) ==
    MatchingArgs(maxn)
        \cup {a \in MismatchedArgs(maxn) :
                \/ Len(a[1]) # Len(a[2])
                \/ ~a[3][1] /\ Len(a[3][2]) # Len(a[2]) - 1}

Init ==
    /\ cls = "none"
    /\ cfg = NoConfig
    /\ enc = NoEncoder("none")
    /\ calls = <<>>
    /\ plain = NoCall
    /\ withSkips = NoCall

\* SpatialEncoder(channels, stage_depths, downsampling_factors, ...,
\*                downsampler_factory, stem_factory, base_scale)
ConstructSpatialEncoder ==
    /\ cls = "none"
    /\ \E a \in ListArgs(MaxStages),
          downsampler_factory \in BOOLEAN,
          stem_factory \in BOOLEAN,
          base_scale \in BaseScales :
            LET c == Config(a[1], a[2], a[3][2], a[3][1],
                            downsampler_factory, stem_factory, base_scale,
                            <<>>, FALSE)
                r == SpatialEncoder_init(c, stem_factory)
            IN  /\ cls' = "SpatialEncoder"
                /\ cfg' = c
                /\ enc' = r.enc
                /\ calls' = r.calls
    /\ UNCHANGED <<plain, withSkips>>

\* MultiInputSpatialEncoder(inputs, channels, stage_depths, ...)
ConstructMultiInputSpatialEncoder ==
    /\ cls = "none"
    /\ \E a \in ListArgs(MaxMultiStages),
          downsampler_factory \in BOOLEAN,
          stem_factories_none \in BOOLEAN,
          base_scale \in BaseScales,
          inputs \in SeqsUpTo(InputScales, 0, MaxInputs) :
            LET c == Config(a[1], a[2], a[3][2], a[3][1],
                            downsampler_factory, FALSE, base_scale,
                            inputs, stem_factories_none)
                r == MultiInputSpatialEncoder_init(c)
            IN  /\ cls' = "MultiInputSpatialEncoder"
                /\ cfg' = c
                /\ enc' = r.enc
                /\ calls' = r.calls
    /\ UNCHANGED <<plain, withSkips>>

Record(return_skips, outcome) ==
    /\ IF return_skips
       THEN withSkips' = outcome /\ UNCHANGED plain
       ELSE plain' = outcome /\ UNCHANGED withSkips
    /\ UNCHANGED <<cls, cfg, enc, calls>>

\* encoder(x, return_skips=...) on a SpatialEncoder, x a tensor.
ForwardSpatialEncoder ==
    /\ cls = "SpatialEncoder"
    /\ enc.status = "ok"
    /\ \E chans \in ChannelValues, return_skips \in BOOLEAN :
          Record(return_skips,
                 SpatialEncoder_forward(enc, InputTensor(0, chans, 1),
                                        return_skips))

\* The dict of input tensors handed to a multi-input encoder: input k has
\* the channels and the extent of the stage it is declared at.
InputDict ==
    [k \in 1..Len(cfg.inputs) |->
        InputTensor(k, skip_connections(enc)[cfg.inputs[k]],
                    cfg.inputs[k] \div enc.base_scale)]

\* encoder(x, return_skips=...) on a MultiInputSpatialEncoder, x the dict of
\* its inputs or a tensor.
ForwardMultiInputSpatialEncoder ==
    /\ cls = "MultiInputSpatialEncoder"
    /\ enc.status = "ok"
    /\ \E return_skips \in BOOLEAN,
          x \in {InputDict} \cup {<<InputTensor(0, c, 1)>> : c \in ChannelValues} :
            Record(return_skips,
                   MultiInputSpatialEncoder_forward(enc, x, return_skips))

Next ==
    \/ ConstructSpatialEncoder
    \/ ConstructMultiInputSpatialEncoder
    \/ ForwardSpatialEncoder
    \/ ForwardMultiInputSpatialEncoder

Spec == Init /\ [][Next]_vars


----------------------------------------------------------------------------
\* Properties.

Constructed == cls # "none" /\ enc.status = "ok"

\* The downsampling factors between the stages that the constructor was
\* called with (2 throughout when downsampling_factors is None).
GivenFactors ==
    IF cfg.factors_none
    THEN [j \in 1..(Len(cfg.stage_depths) - 1) |-> 2]
    ELSE cfg.downsampling_factors

AllFactorsAtLeast2 == \A j \in 1..Len(GivenFactors) : GivenFactors[j] >= 2

\* f_1 * ... * f_(i-1): the cumulative downsampling up to stage i.
RECURSIVE CumulativeFactor(_)
CumulativeFactor(i) ==
    IF i <= 1 THEN 1 ELSE GivenFactors[i - 1] * CumulativeFactor(i - 1)

ScalesFollowFactors ==
    /\ Len(enc.scales) = Len(cfg.stage_depths)
    /\ enc.scales[1] = cfg.base_scale
    /\ \A i \in 2..Len(enc.scales) :
          enc.scales[i] = enc.scales[i - 1] * GivenFactors[i - 1]

StrictlyIncreasing(s) == \A i \in 2..Len(s) : s[i - 1] < s[i]

\* C1 as stated: every constructed encoder has n_stages scales, scales[0] = b,
\* scales[i] = scales[i-1] * f_i, and the scales are strictly increasing.
C1_AsStated ==
    Constructed => ScalesFollowFactors /\ StrictlyIncreasing(enc.scales)

\* C1 amended: every constructed encoder has n_stages scales, scales[0] = b
\* and scales[i] = scales[i-1] * f_i; the scales are strictly increasing when
\* every downsampling factor is at least 2 (a factor of 1 is accepted and
\* repeats a scale).
C1_Scales ==
    Constructed =>
        /\ ScalesFollowFactors
        /\ AllFactorsAtLeast2 => StrictlyIncreasing(enc.scales)

C1_Witness ==
    /\ Constructed
    /\ cfg.base_scale = 1
    /\ GivenFactors = <<2, 3>>
    /\ enc.scales = <<1, 2, 6>>

\* The tensor handed to the first stage has channels[0] channels: a stem
\* produces them, without a stem the input has to have them.
WellFormedInput(call) ==
    enc.stem.kind # "None" \/ call.x[1].chans = enc.channels[1]

\* C2: for a constructed SpatialEncoder and every stage i, the tensor that
\* forward(x, return_skips=True) stores under scales[i] has
\* skip_connections[scales[i]] = channels[i] channels and the extent of the
\* (post-stem) input divided by the cumulative product of the factors up to
\* stage i.  Stated here for the encoders whose factors are all at least 2.
C2_SkipShapes ==
    ( /\ cls = "SpatialEncoder"
      /\ Constructed
      /\ AllFactorsAtLeast2
      /\ withSkips.called
      /\ withSkips.status = "ok"
      /\ WellFormedInput(withSkips) ) =>
        \A i \in 1..enc.n_stages :
            /\ enc.scales[i] \in DOMAIN withSkips.skips
            /\ skip_connections(enc)[enc.scales[i]] = enc.channels[i]
            /\ withSkips.skips[enc.scales[i]].chans = enc.channels[i]
            /\ withSkips.skips[enc.scales[i]].div = CumulativeFactor(i)

\* The positions in a trace of the events of a unit at stage i.
Positions(trace, unit, i) ==
    {p \in 1..Len(trace) : trace[p].unit = unit /\ trace[p].i = i}

The(S) == CHOOSE p \in S : TRUE

\* The stem, when configured, runs exactly once, first, on the input; then
\* downsampler i and stage i run exactly once each, in the order of the
\* stages, every unit on the output of the unit before it.
SequentialRun(call) ==
    LET tr == call.trace
        stemmed == enc.stem.kind # "None"
        first == IF stemmed THEN tr[1].out ELSE call.x[1]
    IN  /\ Cardinality(Positions(tr, "stem", 0)) = IF stemmed THEN 1 ELSE 0
        /\ stemmed => tr[1].unit = "stem" /\ tr[1].inp = call.x
        /\ \A i \in 1..enc.n_stages :
            /\ Cardinality(Positions(tr, "down", i)) = 1
            /\ Cardinality(Positions(tr, "stage", i)) = 1
            /\ LET pd == The(Positions(tr, "down", i))
                   ps == The(Positions(tr, "stage", i))
               IN  /\ pd < ps
                   /\ tr[ps].inp = <<tr[pd].out>>
                   /\ IF i = 1
                      THEN tr[pd].inp = <<first>>
                      ELSE LET pp == The(Positions(tr, "stage", i - 1))
                           IN  pp < pd /\ tr[pd].inp = <<tr[pp].out>>

StageOutput(call, i) == call.trace[The(Positions(call.trace, "stage", i))].out

SkipsCall ==
    /\ cls = "SpatialEncoder"
    /\ Constructed
    /\ withSkips.called
    /\ withSkips.status = "ok"

\* C3 as stated: forward(x, return_skips=True) runs the stem once, then every
\* stage once in order, and returns a mapping with exactly one entry per
\* stage, keyed by the stage's scale and holding the stage's output; its keys
\* are those of skip_connections.
C3_AsStated ==
    SkipsCall =>
        /\ SequentialRun(withSkips)
        /\ DOMAIN withSkips.skips = DOMAIN skip_connections(enc)
        /\ Cardinality(DOMAIN withSkips.skips) = enc.n_stages
        /\ \A i \in 1..enc.n_stages :
              withSkips.skips[enc.scales[i]] = StageOutput(withSkips, i)

\* The last stage that has the scale s.
LastStageAt(s) ==
    CHOOSE i \in 1..enc.n_stages :
        /\ enc.scales[i] = s
        /\ \A j \in (i + 1)..enc.n_stages : enc.scales[j] # s

\* C3 amended: forward(x, return_skips=True) runs the stem once, then every
\* stage once in order, and returns a mapping with one entry per distinct
\* scale, holding the output of the last stage that has this scale; its keys
\* are those of skip_connections.  It has exactly one entry per stage, each
\* holding that stage's output, when every factor is at least 2.
C3_Skips ==
    SkipsCall =>
        /\ SequentialRun(withSkips)
        /\ DOMAIN withSkips.skips = DOMAIN skip_connections(enc)
        /\ DOMAIN withSkips.skips = SeqRange(enc.scales)
        /\ \A s \in DOMAIN withSkips.skips :
              withSkips.skips[s] = StageOutput(withSkips, LastStageAt(s))
        /\ AllFactorsAtLeast2 =>
              /\ Cardinality(DOMAIN withSkips.skips) = enc.n_stages
              /\ \A i \in 1..enc.n_stages :
                    withSkips.skips[enc.scales[i]] = StageOutput(withSkips, i)

C3_Witness ==
    /\ SkipsCall
    /\ enc.stem.kind = "Stem"
    /\ enc.n_stages = 3
    /\ AllFactorsAtLeast2
    /\ \A i \in 1..3 : cfg.stage_depths[i] >= 1

\* C4: forward(x, return_skips=False) returns the tensor that
\* forward(x, return_skips=True) holds at the coarsest scale scales[-1] (and
\* raises when that call raises), for both encoder classes.
C4_PlainIsCoarsestSkip ==
    ( /\ Constructed
      /\ plain.called
      /\ withSkips.called
      /\ plain.x = withSkips.x ) =>
        /\ plain.status = withSkips.status
        /\ plain.status = "ok" =>
              plain.y = withSkips.skips[enc.scales[Len(enc.scales)]]

C4_Witness ==
    /\ cls = "SpatialEncoder"
    /\ Constructed
    /\ enc.stem.kind = "Stem"
    /\ enc.n_stages >= 2
    /\ plain.called /\ withSkips.called
    /\ plain.x = withSkips.x
    /\ plain.status = "ok"
    /\ ~IsNone(plain.y)

LengthsDisagree ==
    \/ Len(cfg.channels) # Len(cfg.stage_depths)
    \/ ~cfg.factors_none
         /\ Len(cfg.downsampling_factors) # Len(cfg.stage_depths) - 1

\* C5: a constructor call with len(channels) # len(stage_depths) or
\* len(downsampling_factors) # len(stage_depths) - 1 raises the configuration
\* error (ValueError), no factory has been called when it does, and no
\* encoder exists afterwards (so none is ever run).
C5_LengthsFailFast ==
    (cls # "none" /\ LengthsDisagree) =>
        /\ enc = NoEncoder("ValueError")
        /\ calls = <<>>
        /\ ~plain.called /\ ~withSkips.called

C5_Witness ==
    /\ cls = "MultiInputSpatialEncoder"
    /\ Len(cfg.channels) = Len(cfg.stage_depths)
    /\ ~cfg.factors_none
    /\ Len(cfg.downsampling_factors) < Len(cfg.stage_depths) - 1
    /\ enc.status = "ValueError"


MultiConstructed == cls = "MultiInputSpatialEncoder" /\ Constructed

\* The scales of the stages, from the arguments of the constructor call.
ExpectedScales ==
    {cfg.base_scale * CumulativeFactor(i) : i \in 1..Len(cfg.stage_depths)}

BadInputScale == \E k \in 1..Len(cfg.inputs) : cfg.inputs[k] \notin ExpectedScales

\* Two or more inputs at the base scale, and a channel list too short to be
\* indexed by that scale.
BaseScaleIndexOutOfRange ==
    /\ Cardinality({k \in 1..Len(cfg.inputs) : cfg.inputs[k] = cfg.base_scale}) > 1
    /\ cfg.base_scale >= Len(cfg.channels)

ZeroDepthStages == {i \in 1..enc.n_stages : cfg.stage_depths[i] = 0}

\* The events of a call that belong to stage i: from the downsampler of
\* stage i up to the downsampler of the next stage.
Segment(call, i) ==
    LET tr == call.trace
        from == The(Positions(tr, "down", i))
        to == IF i < enc.n_stages
              THEN The(Positions(tr, "down", i + 1)) - 1
              ELSE Len(tr)
    IN  from..to

UnitsIn(call, i, unit) == {p \in Segment(call, i) : call.trace[p].unit = unit}

C7_OneUnitDownsamples ==
    (Constructed /\ AllFactorsAtLeast2) =>
        \A i \in 2..enc.n_stages :
            LET f == GivenFactors[i - 1]
                blocks == enc.stages[i]
                down == enc.downsamplers[i]
            IN  IF ~cfg.downsampler_factory
                THEN /\ \E p \in 1..Len(calls) :
                            /\ calls[p].factory = "stage"
                            /\ calls[p].i = i
                            /\ calls[p].down = f
                     /\ down.kind = "Identity"
                     /\ Cardinality({k \in 1..Len(blocks) : blocks[k].down # 0}) = 1
                     /\ \A k \in 1..Len(blocks) :
                            /\ blocks[k].down = IF k = 1 THEN f ELSE 0
                            /\ blocks[k].cin = enc.channels[IF k = 1 THEN i - 1 ELSE i]
                            /\ blocks[k].cout = enc.channels[i]
                ELSE /\ \A k \in 1..Len(blocks) : blocks[k].down = 0
                     /\ IF f = 1
                        THEN down.kind = "Identity"
                        ELSE down = [kind |-> "Downsampler",
                                     cin |-> enc.channels[i - 1],
                                     cout |-> enc.channels[i], f |-> f, i |-> i]

\* The tensor of the main pathway that reaches the aggregation of stage i:
\* the output of the stage when it has run before, else of the downsampler.
Carried(call, i) ==
    LET tr == call.trace
        aggs == UnitsIn(call, i, "agg") \cup UnitsIn(call, i, "skip")
        early == {p \in UnitsIn(call, i, "stage") : \A q \in aggs : p < q}
    IN  IF enc.aggregate_after /\ early # {}
        THEN tr[The(early)].out
        ELSE tr[The(UnitsIn(call, i, "down"))].out

StemOutputs(call, i) == {call.trace[p].out : p \in UnitsIn(call, i, "stem")}

Sources(call, i) ==
    StemOutputs(call, i)
        \cup (IF IsNone(Carried(call, i)) THEN {} ELSE {Carried(call, i)})

MultiSkipsCall == MultiConstructed /\ withSkips.called /\ withSkips.status = "ok"

\* C8: at every stage of MultiInputSpatialEncoder.forward the stem outputs
\* of the inputs registered at the stage's scale and the tensor carried
\* forward (when there is one) are combined: with two or more of these
\* sources the aggregator of the stage is called exactly once, with all of
\* them; with fewer it is not called.  Stated here for the encoders whose
\* factors are all at least 2.
C8_AggregatesAllSources ==
    (MultiSkipsCall /\ AllFactorsAtLeast2) =>
        \A i \in 1..enc.n_stages :
            LET tr == withSkips.trace
                aggs == UnitsIn(withSkips, i, "agg")
            IN  IF Cardinality(Sources(withSkips, i)) >= 2
                THEN /\ Cardinality(aggs) = 1
                     /\ SeqRange(tr[The(aggs)].inp) = Sources(withSkips, i)
                ELSE aggs = {}

\* The tensor that leaves the aggregation of stage i: the aggregate, the
\* stem output of the only registered input, or the tensor carried forward.
Aggregated(call, i) ==
    LET tr == call.trace
        aggs == UnitsIn(call, i, "agg")
        stems == UnitsIn(call, i, "stem")
    IN  IF aggs # {}
        THEN tr[The(aggs)].out
        ELSE IF stems # {}
        THEN tr[The(stems)].out
        ELSE Carried(call, i)

\* In stage i the blocks run on the tensor carried forward, before any
\* aggregation, and the registered inputs come in afterwards.
StageThenAggregate(call, i) ==
    LET tr == call.trace
        ps == The(UnitsIn(call, i, "stage"))
    IN  /\ \A q \in UnitsIn(call, i, "agg") : ps < q
        /\ tr[ps].inp = <<tr[The(UnitsIn(call, i, "down"))].out>>
        /\ tr[The(UnitsIn(call, i, "skip"))].out = Aggregated(call, i)

\* In stage i the registered inputs are aggregated first and the blocks run
\* on the outcome.
AggregateThenStage(call, i) ==
    LET tr == call.trace
        ps == The(UnitsIn(call, i, "stage"))
    IN  /\ \A q \in UnitsIn(call, i, "agg") : q < ps
        /\ tr[ps].inp = <<Aggregated(call, i)>>
        /\ tr[The(UnitsIn(call, i, "skip"))].out = tr[ps].out

\* The stages of a call at which inputs are registered and the blocks run.
MixingStages(call) ==
    {i \in 1..enc.n_stages :
        /\ UnitsIn(call, i, "stem") # {}
        /\ UnitsIn(call, i, "stage") # {}}

\* C9 as stated: with a downsampler factory the blocks of a stage run on the
\* tensor carried forward and the inputs are aggregated afterwards; without
\* one the inputs are aggregated first and the blocks run on the aggregate.
\* Stated here for the encoders whose factors are all at least 2 and the
\* stages that have blocks and are reached by a tensor carried forward.
C9_AsStated ==
    (MultiSkipsCall /\ AllFactorsAtLeast2) =>
        \A i \in MixingStages(withSkips) :
            (cfg.stage_depths[i] >= 1 /\ ~IsNone(Carried(withSkips, i))) =>
                IF cfg.downsampler_factory
                THEN StageThenAggregate(withSkips, i)
                ELSE AggregateThenStage(withSkips, i)

\* C9 amended: without a downsampler factory the blocks of a stage run on the
\* tensor carried forward and the inputs are aggregated afterwards; with one
\* the inputs are aggregated first and the blocks run on the aggregate.
C9_AggregationOrder ==
    MultiSkipsCall =>
        /\ enc.aggregate_after = ~cfg.downsampler_factory
        /\ \A i \in MixingStages(withSkips) :
              IF cfg.downsampler_factory
              THEN AggregateThenStage(withSkips, i)
              ELSE StageThenAggregate(withSkips, i)

C9_Witness ==
    /\ MultiSkipsCall
    /\ cfg.downsampler_factory
    /\ \E i \in MixingStages(withSkips) :
          /\ UnitsIn(withSkips, i, "agg") # {}
          /\ cfg.stage_depths[i] >= 1

C11_NotADict ==
    MultiConstructed =>
        \A call \in {plain, withSkips} :
            (call.called /\ ~IsDict(call.x)) =>
                /\ call.status = "ValueError"
                /\ call.trace = <<>>
                /\ IsNone(call.y)
                /\ call.skips = <<>>

C11_Witness ==
    /\ MultiConstructed
    /\ Len(cfg.inputs) >= 1
    /\ withSkips.called /\ ~IsDict(withSkips.x)
    /\ plain.called /\ ~IsDict(plain.x)
    /\ withSkips.status = "ValueError"

----------------------------------------------------------------------------
\* The parallel encoder.  A scale index keeps the 0-based value of the
\* source, so channels[scale_index] of the source is channels[scale_index + 1]
\* here.

\* Bounds: the number of scales, the depth and the level index of a
\* ParallelEncoderLevel, and the depth of a ParallelEncoder.
MaxScales == 3
MaxLevelDepth == 4
MaxLevelIndex == 7
MaxParallelDepth == 3
ScaleRatios == {2, 3}

Max2(a, b) == IF a >= b THEN a ELSE b
Min2(a, b) == IF a <= b THEN a ELSE b

\* A projection: nn.Conv2d(ch_in_1, ch_in_2, kernel_size=1) or nn.Identity.
ApplyProjection(p, t) ==
    IF IsNone(t) \/ IsErr(t)
    THEN ErrT
    ELSE IF p.kind = "Identity"
    THEN t
    ELSE IF t.chans # p.cin
    THEN ErrT
    ELSE [chans |-> p.cout,
          div |-> t.div,
          hist |-> Append(t.hist, Op("proj", p.i, 0, <<>>))]

\* An aggregator called with tensors of which one may be the outcome of a
\* unit that raised.
Aggregate(a, ts) ==
    IF \E j \in 1..Len(ts) : IsNone(ts[j]) \/ IsErr(ts[j])
    THEN ErrT
    ELSE ApplyAggregator(a, ts)

NoUnit == [kind |-> "None"]

NoLevel(status) ==
    [status |-> status, scales_start |-> 0, level_index |-> 0, depth |-> 0,
     downsamplers |-> <<>>, projections |-> <<>>, aggregators |-> <<>>,
     blocks |-> <<>>, agg_in |-> NoUnit]

\* The factory calls ParallelEncoderLevel.__init__ makes for scale_index,
\* in order.
LevelCallsAt(channels, scales, scale_index) ==
    IF scale_index = 0
    THEN <<Call("block", channels[1], channels[1], 0, 0, 0, <<>>)>>
    ELSE LET ch_in_2 == channels[scale_index + 1]
             f_down == scales[scale_index + 1] \div scales[scale_index]
         IN  <<Call("downsampler", ch_in_2, ch_in_2, f_down, scale_index, 0, <<>>),
               Call("aggregator", 0, ch_in_2, 0, scale_index, 0, <<ch_in_2, ch_in_2>>),
               Call("block", ch_in_2, ch_in_2, 0, scale_index, 0, <<>>)>>

RECURSIVE LevelCalls(_, _, _, _)
LevelCalls(channels, scales, scale_index, scales_end) ==
    IF scale_index >= scales_end
    THEN <<>>
    ELSE LevelCallsAt(channels, scales, scale_index)
            \o LevelCalls(channels, scales, scale_index + 1, scales_end)

\* Variant: the level index is checked against depth + n_stages - 1.
LevelIndexTooLarge_strict(scales, level_index, depth) ==
    level_index >= depth + Len(scales) - 1

\* ParallelEncoderLevel.__init__: the check of the level index.
LevelIndexTooLarge(scales, level_index, depth) ==
    level_index >= depth + Len(scales)

\* Variant: the band of a level starts one scale lower.
ScalesStart_lower(level_index, depth) == Max2(0, level_index - depth)

ScalesStart(level_index, depth) == Max2(0, level_index - depth + 1)

ScalesEnd(channels, level_index) == Min2(level_index + 1, Len(channels))

\* ParallelEncoderLevel.__init__: the level and the factory calls made.
ParallelEncoderLevel_init(channels, scales, level_index, depth, input_aggregator_factory) ==
    IF LevelIndexTooLarge(scales, level_index, depth)
    THEN [lvl |-> NoLevel("ValueError"), calls |-> <<>>]
    ELSE
        LET scales_start == ScalesStart(level_index, depth)
            scales_end == ScalesEnd(channels, level_index)
            first == Max2(scales_start, 1)
            made == LevelCalls(channels, scales, scales_start, scales_end)
            lvl ==
              [status |-> "ok",
               scales_start |-> scales_start,
               level_index |-> level_index,
               depth |-> depth,
               blocks |->
                 [o \in 1..(scales_end - scales_start) |->
                    LET scale_index == scales_start + o - 1
                    IN  [cin |-> channels[scale_index + 1],
                         cout |-> channels[scale_index + 1],
                         down |-> 0, i |-> scale_index, k |-> level_index]],
               projections |->
                 [j \in 1..(scales_end - first) |->
                    LET scale_index == first + j - 1
                        ch_in_1 == channels[scale_index]
                        ch_in_2 == channels[scale_index + 1]
                    IN  IF ch_in_1 # ch_in_2
                        THEN [kind |-> "Conv2d", cin |-> ch_in_1,
                              cout |-> ch_in_2, i |-> scale_index]
                        ELSE [kind |-> "Identity", cin |-> 0, cout |-> 0,
                              i |-> scale_index]],
               downsamplers |->
                 [j \in 1..(scales_end - first) |->
                    LET scale_index == first + j - 1
                    IN  [kind |-> "Down",
                         cin |-> channels[scale_index + 1],
                         cout |-> channels[scale_index + 1],
                         f |-> scales[scale_index + 1] \div scales[scale_index],
                         i |-> scale_index]],
               aggregators |->
                 [j \in 1..(scales_end - first) |->
                    LET scale_index == first + j - 1
                    IN  [cins |-> <<channels[scale_index + 1],
                                    channels[scale_index + 1]>>,
                         cout |-> channels[scale_index + 1],
                         scale |-> scale_index]],
               agg_in |-> NoUnit]
        IN  IF ~input_aggregator_factory
            THEN [lvl |-> lvl, calls |-> made]
            ELSE IF level_index >= Len(channels)
            THEN [lvl |-> NoLevel("IndexError"), calls |-> made]
            ELSE [lvl |-> [lvl EXCEPT !.agg_in =
                            [kind |-> "Aggregator",
                             cins |-> <<channels[level_index + 1],
                                        channels[level_index + 1]>>,
                             cout |-> channels[level_index + 1],
                             scale |-> level_index]],
                  calls |-> Append(made,
                            Call("input_aggregator", 0, channels[level_index + 1],
                                 0, level_index, 0,
                                 <<channels[level_index + 1],
                                   channels[level_index + 1]>>))]

LevelRaised(st, status) == [st EXCEPT !.status = status]

\* ParallelEncoderLevel.forward: one pass of the loop over the blocks.
LevelStep(l, x, x_in, offset, st) ==
    LET scale_index == l.scales_start + offset
        block == l.blocks[offset + 1]
        index == IF l.scales_start = 0 THEN offset - 1 ELSE offset
    IN  IF scale_index = 0
        THEN IF Len(x) < 1
             THEN LevelRaised(st, "IndexError")
             ELSE LET y == ApplyBlock(block, x[1])
                  IN  IF IsErr(y)
                      THEN LevelRaised(st, "error")
                      ELSE [status |-> "ok",
                            results |-> Append(st.results, y),
                            trace |-> Append(st.trace,
                                        Event("block", 0, <<x[1]>>, y))]
        ELSE IF scale_index < Len(x)
        THEN LET p == ApplyProjection(l.projections[index + 1], x[scale_index])
                 x_1 == ApplyDownsampler(l.downsamplers[index + 1], p)
                 x_2 == x[scale_index + 1]
                 a == Aggregate(l.aggregators[index + 1], <<x_1, x_2>>)
                 y == ApplyBlock(block, a)
             IN  IF IsErr(p) \/ IsErr(x_1) \/ IsErr(a) \/ IsErr(y)
                 THEN LevelRaised(st, "error")
                 ELSE [status |-> "ok",
                       results |-> Append(st.results, y),
                       trace |-> st.trace \o
                          <<Event("proj", scale_index, <<x[scale_index]>>, p),
                            Event("down", scale_index, <<p>>, x_1),
                            Event("agg", scale_index, <<x_1, x_2>>, a),
                            Event("block", scale_index, <<a>>, y)>>]
        ELSE IF scale_index > Len(x)
        THEN LevelRaised(st, "IndexError")
        ELSE LET p == ApplyProjection(l.projections[index + 1], x[scale_index])
                 d == ApplyDownsampler(l.downsamplers[index + 1], p)
             IN  IF IsErr(p) \/ IsErr(d)
                 THEN LevelRaised(st, "error")
                 ELSE IF ~IsNone(x_in) /\ l.agg_in.kind = "None"
                 THEN LevelRaised(st, "AttributeError")
                 ELSE LET a == IF IsNone(x_in)
                               THEN d
                               ELSE Aggregate(l.agg_in, <<d, x_in>>)
                          y == ApplyBlock(block, a)
                          late == IF IsNone(x_in)
                                  THEN <<>>
                                  ELSE <<Event("agg_in", scale_index, <<d, x_in>>, a)>>
                      IN  IF IsErr(a) \/ IsErr(y)
                          THEN LevelRaised(st, "error")
                          ELSE [status |-> "ok",
                                results |-> Append(st.results, y),
                                trace |-> st.trace \o
                                  <<Event("proj", scale_index, <<x[scale_index]>>, p),
                                    Event("down", scale_index, <<p>>, d)>>
                                  \o late
                                  \o <<Event("block", scale_index, <<a>>, y)>>]

\* Variant: the loop reads the results of the level so far where the
\* incoming list is read.
RECURSIVE ParallelEncoderLevel_forward_loop_in_place(_, _, _, _, _)
ParallelEncoderLevel_forward_loop_in_place(l, x, x_in, offset, st) ==
    IF offset >= Len(l.blocks) \/ st.status # "ok"
    THEN st
    ELSE ParallelEncoderLevel_forward_loop_in_place(l, x, x_in, offset + 1,
            LevelStep(l, [j \in 1..Len(x) |-> IF j <= Len(st.results)
                                               THEN st.results[j] ELSE x[j]],
                      x_in, offset, st))

RECURSIVE ParallelEncoderLevel_forward_loop(_, _, _, _, _)
ParallelEncoderLevel_forward_loop(l, x, x_in, offset, st) ==
    IF offset >= Len(l.blocks) \/ st.status # "ok"
    THEN st
    ELSE ParallelEncoderLevel_forward_loop(l, x, x_in, offset + 1,
                                           LevelStep(l, x, x_in, offset, st))

\* Variant: the tensors below the band are dropped from the result.
ParallelEncoderLevel_forward_band_only(l, x, x_in) ==
    ParallelEncoderLevel_forward_loop(l, x, x_in, 0,
        [status |-> "ok", results |-> <<>>, trace |-> <<>>])

\* Variant: the list of results is kept on the level between the calls, so
\* that a call after a successful one goes on appending to the kept list.
ParallelEncoderLevel_forward_kept_results(l, x, x_in) ==
    ParallelEncoderLevel_forward_loop(l, x, x_in, 0,
        [status |-> "ok",
         results |-> IF cls = "ParallelEncoderLevel" /\ plain.called /\ plain.status = "ok"
                     THEN plain.results
                     ELSE SubSeq(x, 1, Min2(Len(x), Max2(l.level_index - l.depth + 1, 0))),
         trace |-> <<>>])

\* ParallelEncoderLevel.forward(x, x_in): the list of results, starting
\* with the slice x[:max(level_index - depth + 1, 0)].
ParallelEncoderLevel_forward(l, x, x_in) ==
    ParallelEncoderLevel_forward_loop(l, x, x_in, 0,
        [status |-> "ok",
         results |-> SubSeq(x, 1, Min2(Len(x), Max2(l.level_index - l.depth + 1, 0))),
         trace |-> <<>>])

\* The keys of a dict with integer keys, in increasing order (the order in
\* which the dicts of the model are filled).
RECURSIVE SortedKeys(_)
SortedKeys(S) ==
    IF S = {}
    THEN <<>>
    ELSE LET m == CHOOSE k \in S : \A j \in S : k <= j
         IN  <<m>> \o SortedKeys(S \ {m})

NoParallelEncoder(status) ==
    [status |-> status, depth |-> 0, n_stages |-> 0, inputs |-> <<>>,
     stages |-> <<>>, stems |-> <<>>, aggregators |-> <<>>]

\* Variant: the input aggregator is given to the level after the one at
\* which the input is declared.
RECURSIVE ParallelEncoderLevels_shifted(_, _, _, _, _, _)
ParallelEncoderLevels_shifted(inputs, channels, scales, depth, level_index, acc) ==
    IF level_index >= depth + Len(channels) - 1 \/ acc.status # "ok"
    THEN acc
    ELSE LET r == ParallelEncoderLevel_init(channels, scales, level_index, depth,
                                            (level_index - 1) \in DOMAIN inputs)
         IN  ParallelEncoderLevels_shifted(inputs, channels, scales, depth, level_index + 1,
                [status |-> r.lvl.status,
                 stages |-> IF r.lvl.status = "ok"
                            THEN Append(acc.stages, r.lvl)
                            ELSE acc.stages,
                 calls |-> acc.calls \o r.calls])

\* ParallelEncoder.__init__: the loop that builds the levels.
RECURSIVE ParallelEncoderLevels(_, _, _, _, _, _)
ParallelEncoderLevels(inputs, channels, scales, depth, level_index, acc) ==
    IF level_index >= depth + Len(channels) - 1 \/ acc.status # "ok"
    THEN acc
    ELSE LET r == ParallelEncoderLevel_init(channels, scales, level_index, depth,
                                            level_index \in DOMAIN inputs)
         IN  ParallelEncoderLevels(inputs, channels, scales, depth, level_index + 1,
                [status |-> r.lvl.status,
                 stages |-> IF r.lvl.status = "ok"
                            THEN Append(acc.stages, r.lvl)
                            ELSE acc.stages,
                 calls |-> acc.calls \o r.calls])

\* ParallelEncoder.__init__: the loop that builds the stems and the
\* aggregators of the inputs.
RECURSIVE ParallelEncoderStems(_, _, _, _, _)
ParallelEncoderStems(inputs, channels, keys, p, acc) ==
    IF p > Len(keys) \/ acc.status # "ok"
    THEN acc
    ELSE LET stage == keys[p]
         IN  IF stage >= Len(channels)
             THEN [acc EXCEPT !.status = "IndexError"]
             ELSE
               LET stem == [cin |-> inputs[stage], cout |-> channels[stage + 1],
                            down |-> 0, i |-> stage, k |-> -1]
                   stems == [q \in DOMAIN acc.stems \cup {stage} |->
                               IF q = stage THEN stem ELSE acc.stems[q]]
                   another == Cardinality(DOMAIN stems) > 1
                   agg == [cins |-> <<channels[stage + 1], channels[stage + 1]>>,
                           cout |-> channels[stage + 1], scale |-> stage]
               IN  ParallelEncoderStems(inputs, channels, keys, p + 1,
                     [status |-> "ok",
                      stems |-> stems,
                      aggregators |->
                        IF another
                        THEN [q \in DOMAIN acc.aggregators \cup {stage} |->
                                IF q = stage THEN agg ELSE acc.aggregators[q]]
                        ELSE acc.aggregators,
                      calls |->
                        acc.calls
                          \o <<Call("block", inputs[stage], channels[stage + 1],
                                    0, stage, -1, <<>>)>>
                          \o (IF another
                              THEN <<Call("input_aggregator", 0, channels[stage + 1],
                                          0, stage, 0, agg.cins)>>
                              ELSE <<>>)])

\* ParallelEncoder.__init__(inputs, channels, scales, depth, ...)
ParallelEncoder_init(inputs, channels, scales, depth) ==
    LET lv == ParallelEncoderLevels(inputs, channels, scales, depth, 0,
                  [status |-> "ok", stages |-> <<>>, calls |-> <<>>])
        sm == ParallelEncoderStems(inputs, channels, SortedKeys(DOMAIN inputs), 1,
                  [status |-> "ok", stems |-> <<>>, aggregators |-> <<>>,
                   calls |-> lv.calls])
    IN  IF lv.status # "ok"
        THEN [enc |-> NoParallelEncoder(lv.status), calls |-> lv.calls]
        ELSE IF sm.status # "ok"
        THEN [enc |-> NoParallelEncoder(sm.status), calls |-> sm.calls]
        ELSE [enc |-> [status |-> "ok", depth |-> depth,
                       n_stages |-> Len(channels), inputs |-> inputs,
                       stages |-> lv.stages, stems |-> sm.stems,
                       aggregators |-> sm.aggregators],
              calls |-> sm.calls]

\* Variant: every level is handed the next input of the list.
ParallelEncoder_injects_always(e, stage_index) == stage_index > 0

\* ParallelEncoder.forward: whether an input is injected at a level.
ParallelEncoder_injects(e, stage_index) ==
    stage_index > 0 /\ stage_index \in DOMAIN e.inputs

\* ParallelEncoder.forward: the loop over the levels.
RECURSIVE ParallelEncoder_forward_loop(_, _, _, _)
ParallelEncoder_forward_loop(e, x, stage_index, st) ==
    IF stage_index >= e.depth + e.n_stages - 1 \/ st.status # "ok"
    THEN st
    ELSE
      LET inject == ParallelEncoder_injects(e, stage_index)
      IN  IF inject /\ stage_index \notin DOMAIN e.stems
          THEN [st EXCEPT !.status = "KeyError"]
          ELSE IF inject /\ st.input_index >= Len(x)
          THEN [st EXCEPT !.status = "IndexError"]
          ELSE
            LET x_in == IF inject
                        THEN ApplyBlock(e.stems[stage_index], x[st.input_index + 1])
                        ELSE NoneT
                tr1 == IF inject
                       THEN Append(st.trace,
                                Event("stem", stage_index,
                                      <<x[st.input_index + 1]>>, x_in))
                       ELSE st.trace
                r == ParallelEncoderLevel_forward(e.stages[stage_index + 1],
                                                  st.y, x_in)
            IN  IF IsErr(x_in)
                THEN [st EXCEPT !.status = "error"]
                ELSE IF r.status # "ok"
                THEN [st EXCEPT !.status = r.status, !.trace = tr1]
                ELSE ParallelEncoder_forward_loop(e, x, stage_index + 1,
                        [status |-> "ok",
                         y |-> r.results,
                         input_index |-> IF inject THEN st.input_index + 1
                                         ELSE st.input_index,
                         trace |-> Append(tr1,
                                     Event("level", stage_index, <<x_in>>,
                                           r.results[Len(r.results)]))])

\* ParallelEncoder.forward(x), x the list of the input tensors.
ParallelEncoder_forward(e, x) ==
    LET st0 == [status |-> "ok", y |-> <<>>, input_index |-> 1, trace |-> <<>>]
    IN  IF 0 \notin DOMAIN e.stems
        THEN [st0 EXCEPT !.status = "KeyError"]
        ELSE IF Len(x) < 1
        THEN [st0 EXCEPT !.status = "IndexError"]
        ELSE LET y0 == ApplyBlock(e.stems[0], x[1])
             IN  IF IsErr(y0)
                 THEN [st0 EXCEPT !.status = "error"]
                 ELSE ParallelEncoder_forward_loop(e, x, 0,
                        [st0 EXCEPT !.y = <<y0>>,
                                    !.trace = <<Event("stem", 0, <<x[1]>>, y0)>>])

----------------------------------------------------------------------------
\* The state machine of the parallel encoder: one constructor call, then
\* forward calls.

\* The lists of scales of n scales: the finest is 1 and every scale is a
\* multiple of the one before.
RECURSIVE ParallelScales(_)
ParallelScales(n) ==
    IF n <= 1
    THEN {<<1>>}
    ELSE {Append(sc, f * sc[n - 1]) : sc \in ParallelScales(n - 1), f \in ScaleRatios}

ParallelConfig(channels, scales, level_index, depth, inputs, input_aggregator_factory) ==
    [channels |-> channels, scales |-> scales, level_index |-> level_index,
     depth |-> depth, inputs |-> inputs,
     input_aggregator_factory |-> input_aggregator_factory]

ParallelCall(x, x_in, st, results) ==
    [called |-> TRUE, x |-> x, x_in |-> x_in, status |-> st.status,
     results |-> IF st.status = "ok" THEN results ELSE <<>>,
     trace |-> st.trace]

\* ParallelEncoderLevel(channels, scales, level_index, depth, ...)
ConstructParallelEncoderLevel ==
    /\ cls = "none"
    /\ \E n \in 1..MaxScales :
       \E channels \in [1..n -> ChannelValues],
          scales \in ParallelScales(n),
          level_index \in 0..MaxLevelIndex,
          depth \in 1..MaxLevelDepth,
          input_aggregator_factory \in BOOLEAN :
            LET r == ParallelEncoderLevel_init(channels, scales, level_index,
                                               depth, input_aggregator_factory)
            IN  /\ cls' = "ParallelEncoderLevel"
                /\ cfg' = ParallelConfig(channels, scales, level_index, depth,
                                         <<>>, input_aggregator_factory)
                /\ enc' = r.lvl
                /\ calls' = r.calls
    /\ UNCHANGED <<plain, withSkips>>

\* The list of the m finest tensors of the scales of the encoder.
ScaleTensors(m) ==
    [s \in 1..m |-> InputTensor(s - 1, cfg.channels[s], cfg.scales[s])]

\* The tensors handed to a level as x_in: None, or a tensor of the scale
\* the level adds.
LateTensors ==
    {NoneT} \cup
    (IF cfg.level_index < Len(cfg.channels)
     THEN {InputTensor(-1, cfg.channels[cfg.level_index + 1],
                       cfg.scales[cfg.level_index + 1])}
     ELSE {})

\* level(x, x_in=...) on a ParallelEncoderLevel.
ForwardParallelEncoderLevel ==
    /\ cls = "ParallelEncoderLevel"
    /\ enc.status = "ok"
    /\ \E m \in 0..Len(cfg.channels), x_in \in LateTensors :
          LET x == ScaleTensors(m)
              r == ParallelEncoderLevel_forward(enc, x, x_in)
          IN  plain' = ParallelCall(x, x_in, r, r.results)
    /\ UNCHANGED <<cls, cfg, enc, calls, withSkips>>

\* The dicts 'inputs' of a ParallelEncoder of n scales: levels, each with
\* the number of channels of its input.
ParallelInputs(n) ==
    UNION {[S -> ChannelValues] : S \in SUBSET (0..n)}

\* ParallelEncoder(inputs, channels, scales, depth, ...)
ConstructParallelEncoder ==
    /\ cls = "none"
    /\ \E n \in 1..MaxScales :
       \E channels \in [1..n -> ChannelValues],
          scales \in ParallelScales(n),
          depth \in 1..MaxParallelDepth,
          inputs \in ParallelInputs(n) :
            LET r == ParallelEncoder_init(inputs, channels, scales, depth)
            IN  /\ cls' = "ParallelEncoder"
                /\ cfg' = ParallelConfig(channels, scales, 0, depth, inputs, TRUE)
                /\ enc' = r.enc
                /\ calls' = r.calls
    /\ UNCHANGED <<plain, withSkips>>

\* The list of input tensors of a ParallelEncoder, in the order of the
\* levels they are declared at: input j has the declared channels and the
\* extent of the scale of its level.
InputList ==
    LET keys == SortedKeys(DOMAIN cfg.inputs)
    IN  [j \in 1..Len(keys) |->
            InputTensor(j - 1, cfg.inputs[keys[j]], cfg.scales[keys[j] + 1])]

\* encoder(x) on a ParallelEncoder: x holds all inputs, or lacks the last.
ForwardParallelEncoder ==
    /\ cls = "ParallelEncoder"
    /\ enc.status = "ok"
    /\ \E m \in {Len(InputList), Max2(Len(InputList) - 1, 0)} :
          LET x == SubSeq(InputList, 1, m)
              r == ParallelEncoder_forward(enc, x)
          IN  plain' = ParallelCall(x, NoneT, r, r.y)
    /\ UNCHANGED <<cls, cfg, enc, calls, withSkips>>

ParallelNext ==
    \/ ConstructParallelEncoderLevel
    \/ ForwardParallelEncoderLevel
    \/ ConstructParallelEncoder
    \/ ForwardParallelEncoder

ParallelSpec == Init /\ [][ParallelNext]_vars

----------------------------------------------------------------------------
\* Properties of the parallel encoder.

LevelConstructed == cls = "ParallelEncoderLevel" /\ enc.status = "ok"

BandStart == Max2(0, cfg.level_index - cfg.depth + 1)
BandEnd == Min2(cfg.level_index + 1, Len(cfg.channels))

\* The last unit that produced tensor t.
LastOp(t) == t.hist[Len(t.hist)]

\* C12: a ParallelEncoderLevel with level index L and depth D over n scales
\* has exactly one block for each scale index in
\* [max(0, L - D + 1), min(L + 1, n)); its forward, handed at least the
\* tensors below the band, returns exactly min(L + 1, n) tensors, of which
\* those below max(0, L - D + 1) are the incoming tensors unchanged and the
\* others are the outputs of the blocks of the band, in the order of the
\* scales.
C12_LevelBand ==
    LevelConstructed =>
        /\ Len(enc.blocks) = BandEnd - BandStart
        /\ \A o \in 1..Len(enc.blocks) : enc.blocks[o].i = BandStart + o - 1
        /\ Cardinality({p \in 1..Len(calls) : calls[p].factory = "block"})
              = BandEnd - BandStart
        /\ (plain.called /\ plain.status = "ok" /\ Len(plain.x) >= BandStart) =>
              /\ Len(plain.results) = BandEnd
              /\ \A j \in 1..BandStart : plain.results[j] = plain.x[j]
              /\ \A j \in (BandStart + 1)..BandEnd :
                    /\ LastOp(plain.results[j]).op = "block"
                    /\ LastOp(plain.results[j]).i = j - 1
                    /\ plain.results[j].chans = cfg.channels[j]

C12_Witness ==
    /\ LevelConstructed
    /\ cfg.level_index = 2 /\ cfg.depth = 4 /\ Len(cfg.channels) = 3
    /\ plain.called /\ plain.status = "ok"
    /\ Len(plain.x) = 2
    /\ Len(plain.results) = 3

\* A level whose band starts above the finest scale passes tensors through.
C12_WitnessPassThrough ==
    /\ LevelConstructed
    /\ plain.called /\ plain.status = "ok"
    /\ BandStart >= 1 /\ BandEnd > BandStart
    /\ plain.results[1] = plain.x[1]

\* C13 as stated: a ParallelEncoderLevel is constructed only if
\* level_index < depth + n_stages - 1, and the construction raises the
\* configuration error for every larger level index.  Stated here for the
\* levels without an input aggregator.
C13_AsStated ==
    (cls = "ParallelEncoderLevel" /\ ~cfg.input_aggregator_factory) =>
        /\ enc.status = "ok" =>
              cfg.level_index < cfg.depth + Len(cfg.scales) - 1
        /\ cfg.level_index >= cfg.depth + Len(cfg.scales) - 1 =>
              enc.status = "ValueError"

\* C13 amended: the construction raises the configuration error
\* (ValueError), before any factory call, exactly for
\* level_index >= depth + n_stages.  The level index depth + n_stages - 1
\* is accepted and gives a level without blocks.  With an input aggregator
\* factory an accepted level index >= n_stages raises IndexError instead,
\* and nothing else makes the construction fail.
C13_LevelIndex ==
    cls = "ParallelEncoderLevel" =>
        /\ enc.status = "ValueError" <=>
              cfg.level_index >= cfg.depth + Len(cfg.scales)
        /\ enc.status = "ValueError" => calls = <<>>
        /\ enc.status = "IndexError" <=>
              /\ cfg.level_index < cfg.depth + Len(cfg.scales)
              /\ cfg.input_aggregator_factory
              /\ cfg.level_index >= Len(cfg.channels)
        /\ enc.status \in {"ok", "ValueError", "IndexError"}
        /\ (enc.status = "ok"
              /\ cfg.level_index = cfg.depth + Len(cfg.scales) - 1) =>
                 enc.blocks = <<>>

C13_Witness ==
    /\ LevelConstructed
    /\ cfg.level_index = cfg.depth + Len(cfg.scales) - 1
    /\ enc.blocks = <<>>
    /\ plain.called /\ plain.status = "ok"

C13_WitnessRejected ==
    /\ cls = "ParallelEncoderLevel"
    /\ enc.status = "ValueError"
    /\ cfg.level_index = cfg.depth + Len(cfg.scales)

ParallelConstructed == cls = "ParallelEncoder" /\ enc.status = "ok"

\* The positions of the trace of a call at which a unit of a kind ran, in
\* increasing order.
RECURSIVE EventsOf(_, _)
EventsOf(trace, unit) ==
    IF trace = <<>>
    THEN <<>>
    ELSE (IF Head(trace).unit = unit THEN <<Head(trace)>> ELSE <<>>)
            \o EventsOf(Tail(trace), unit)

\* C20 as stated: every constructed ParallelEncoder owns the stem of
\* scale 0, so that forward on the list of its inputs puts input 0 through
\* it.
C20_AsStated ==
    ParallelConstructed =>
        /\ 0 \in DOMAIN enc.stems
        /\ (plain.called /\ Len(plain.x) = Cardinality(DOMAIN cfg.inputs)) =>
              plain.status = "ok"

\* C20 amended: ParallelEncoder.forward consumes its input list strictly in
\* order.  When level 0 is among the declared inputs, input 0 goes through
\* the stem of level 0 and seeds the main pathway; the levels then run in
\* increasing level index, all depth + n_stages - 1 of them, and each level
\* above 0 that is declared in 'inputs' applies its stem to the next
\* unconsumed input and hands the result to the level as x_in, while every
\* other level is handed None; every declared input is consumed exactly
\* once.  A ParallelEncoder constructed without an input at level 0 has no
\* stem of scale 0 and its forward raises KeyError before any unit runs; a
\* list with fewer tensors than declared inputs raises IndexError.
C20_InputsInOrder ==
    (ParallelConstructed /\ plain.called) =>
        LET keys == SortedKeys(DOMAIN cfg.inputs)
            stems == EventsOf(plain.trace, "stem")
            levels == EventsOf(plain.trace, "level")
        IN  /\ 0 \notin DOMAIN cfg.inputs =>
                  plain.status = "KeyError" /\ plain.trace = <<>>
            /\ (0 \in DOMAIN cfg.inputs /\ Len(plain.x) >= Len(keys)) =>
                  plain.status = "ok"
            /\ (0 \in DOMAIN cfg.inputs /\ Len(plain.x) < Len(keys)) =>
                  plain.status = "IndexError"
            /\ plain.status = "ok" =>
                  /\ Len(stems) = Len(keys)
                  /\ \A j \in 1..Len(keys) :
                        /\ stems[j].i = keys[j]
                        /\ stems[j].inp = <<plain.x[j]>>
                  /\ plain.trace[1] = stems[1]
                  /\ Len(levels) = cfg.depth + Len(cfg.channels) - 1
                  /\ \A l \in 1..Len(levels) :
                        /\ levels[l].i = l - 1
                        /\ levels[l].inp =
                              IF l - 1 > 0 /\ (l - 1) \in DOMAIN cfg.inputs
                              THEN <<stems[CHOOSE j \in 1..Len(keys) :
                                              keys[j] = l - 1].out>>
                              ELSE <<NoneT>>
                  /\ \A p \in 2..Len(plain.trace) :
                        plain.trace[p].unit = "stem" =>
                            /\ p < Len(plain.trace)
                            /\ plain.trace[p + 1].unit = "level"
                            /\ plain.trace[p + 1].i = plain.trace[p].i

C20_Witness ==
    /\ ParallelConstructed
    /\ plain.called /\ plain.status = "ok"
    /\ Cardinality(DOMAIN cfg.inputs) = 3
    /\ cfg.depth >= 2

C20_WitnessNoStem ==
    /\ ParallelConstructed
    /\ 0 \notin DOMAIN cfg.inputs
    /\ plain.called /\ plain.status = "KeyError"

----------------------------------------------------------------------------
\* The cascading encoders.

\* Bounds: the number of stages of a cascading encoder and the number of
\* blocks of a stage, and the values the channels are drawn from.
MaxCascadeStages == 3
MaxBlocks == 3
CascadeChannels == {2, 3, 4}

CascadeConfig(channels, stages, factors, factors_none, stem_factory) ==
    [channels |-> channels, stages |-> stages,
     downsampling_factors |-> factors, factors_none |-> factors_none,
     stem_factory |-> stem_factory]

\* A cascading encoder whose constructor raised: nothing of it exists.
NoCascade(status) ==
    [status |-> status, channels |-> <<>>, scales |-> <<>>,
     module_map |-> <<>>, depth |-> 0, stem |-> NoStem]

\* CascadingEncoder.__init__(channels, stage_depths, ...).  The body reads
\* the name 'stages' (n_stages = len(stages)) before its only assignment
\* to it, further down in the same function: 'stages' is a local name of
\* the function that is not bound yet, and the read raises
\* UnboundLocalError, whatever the arguments are.
CascadingEncoder_init(c) ==
    [enc |-> NoCascade("UnboundLocalError"), calls |-> <<>>]

\* DenseCascadingEncoder.__init__(channels, stages, ...), channels a list.
\* After the two checks of the lengths the stages are converted with
\* StageConfig, a name that the module neither defines nor imports: the
\* conversion of the first stage raises NameError, which the handler for
\* ValueError around it does not catch.  A list of stages that passed the
\* checks has at least one element.
DenseCascadingEncoder_init(c) ==
    LET n_stages == Len(c.stages)
        downsampling_factors ==
            IF c.factors_none
            THEN [j \in 1..(n_stages - 1) |-> 2]
            ELSE c.downsampling_factors
    IN  IF Len(c.channels) # n_stages
        THEN [enc |-> NoCascade("ValueError"), calls |-> <<>>]
        ELSE IF n_stages # Len(downsampling_factors) + 1
        THEN [enc |-> NoCascade("ValueError"), calls |-> <<>>]
        ELSE [enc |-> NoCascade("NameError"), calls |-> <<>>]

\* The arguments of the constructor of a cascading encoder.
CascadeArgs ==
    {CascadeConfig(channels, stages, fa[2], fa[1], stem_factory) :
        channels \in SeqsUpTo(CascadeChannels, 1, MaxCascadeStages),
        stages \in SeqsUpTo(1..MaxBlocks, 0, MaxCascadeStages),
        fa \in {<<TRUE, <<>> >>}
                 \cup {<<FALSE, [j \in 1..lf |-> 2]>> : lf \in 0..(MaxCascadeStages - 1)},
        stem_factory \in BOOLEAN}

\* CascadingEncoder(channels, stage_depths, ...)
ConstructCascadingEncoder ==
    /\ cls = "none"
    /\ \E c \in CascadeArgs :
          LET r == CascadingEncoder_init(c)
          IN  /\ cls' = "CascadingEncoder"
              /\ cfg' = c
              /\ enc' = r.enc
              /\ calls' = r.calls
    /\ UNCHANGED <<plain, withSkips>>

\* DenseCascadingEncoder(channels, stages, ...)
ConstructDenseCascadingEncoder ==
    /\ cls = "none"
    /\ \E c \in CascadeArgs :
          LET r == DenseCascadingEncoder_init(c)
          IN  /\ cls' = "DenseCascadingEncoder"
              /\ cfg' = c
              /\ enc' = r.enc
              /\ calls' = r.calls
    /\ UNCHANGED <<plain, withSkips>>

CascadingNext ==
    \/ ConstructCascadingEncoder
    \/ ConstructDenseCascadingEncoder

CascadingSpec == Init /\ [][CascadingNext]_vars

----------------------------------------------------------------------------
\* Properties of the cascading encoders.

IsCascade == cls \in {"CascadingEncoder", "DenseCascadingEncoder"}

\* The arguments the documentation of the constructors admits: as many
\* channels as stages, one factor less (or none given), and at least one
\* block in every stage.
CascadeArgsValid ==
    /\ Len(cfg.stages) >= 1
    /\ Len(cfg.channels) = Len(cfg.stages)
    /\ cfg.factors_none \/ Len(cfg.downsampling_factors) = Len(cfg.stages) - 1

\* The blocks (stage s, position p) of the configuration, 0-based.
CascadeBlocks ==
    {<<s, p>> \in (0..(Len(cfg.stages) - 1)) \X (0..(MaxBlocks - 1)) :
        p < cfg.stages[s + 1]}

\* C14, for the part of it that the constructor decides: for every
\* CascadingEncoder configuration with matching lengths and at least one
\* block per stage, the block factory is called once for every block of
\* every stage, with the channel count of the stage as channels_out.
C14_BlockChannels ==
    (cls = "CascadingEncoder" /\ CascadeArgsValid) =>
        /\ enc.status = "ok"
        /\ \A b \in CascadeBlocks :
              \E q \in 1..Len(calls) :
                  /\ calls[q].factory = "block"
                  /\ calls[q].i = b[1] /\ calls[q].k = b[2]
                  /\ calls[q].cout = cfg.channels[b[1] + 1]

\* C15, for the part of it that the constructor decides: for a
\* CascadingEncoder or DenseCascadingEncoder with at least one block per
\* stage, depth = max(s + p) + 1, the module map has the keys 0..depth-1,
\* and block (s, p) is stored in the bucket s + p and in no other.
C15_ModuleMap ==
    (IsCascade /\ CascadeArgsValid
       /\ (cls = "DenseCascadingEncoder" =>
             \A s \in 1..Len(cfg.stages) : cfg.channels[s] % cfg.stages[s] = 0)) =>
        LET keys == {b[1] + b[2] : b \in CascadeBlocks}
        IN  /\ enc.depth = 1 + CHOOSE m \in keys : \A k \in keys : k <= m
            /\ DOMAIN enc.module_map = 0..(enc.depth - 1)
            /\ \A b \in CascadeBlocks :
                  \A d \in DOMAIN enc.module_map :
                      (\E q \in 1..Len(enc.module_map[d]) :
                          /\ enc.module_map[d][q].stage_ind = b[1]
                          /\ enc.module_map[d][q].block_ind = b[2])
                      <=> d = b[1] + b[2]

\* C16, for the part of it that can be observed: a cascading encoder with
\* matching lengths and at least one block per stage is constructed and has
\* at least a wave 0 for forward to run, with the first block of stage 0.
C16_WavesRun ==
    (IsCascade /\ CascadeArgsValid
       /\ \A s \in 1..Len(cfg.stages) : cfg.channels[s] % cfg.stages[s] = 0) =>
        /\ enc.status = "ok"
        /\ enc.depth >= 1
        /\ 0 \in DOMAIN enc.module_map

\* C17, for the part of it that the constructor decides: a CascadingEncoder
\* built from a channel list and block counts >= 1 has one scale per stage
\* and skip_connections maps the scale of every stage to the channels of
\* the stage.
C17_StageOutputs ==
    (cls = "CascadingEncoder" /\ CascadeArgsValid) =>
        /\ enc.status = "ok"
        /\ Len(enc.scales) = Len(cfg.stages)
        /\ \A s \in 1..Len(cfg.stages) :
              /\ enc.scales[s] \in DOMAIN skip_connections(enc)
              /\ skip_connections(enc)[enc.scales[s]] = cfg.channels[s]

\* C18: the constructor of a DenseCascadingEncoder with a stage whose
\* channel count is not divisible by its block count raises the
\* configuration error (ValueError), before any block has been built.
C18_Divisibility ==
    (cls = "DenseCascadingEncoder" /\ CascadeArgsValid
       /\ \E s \in 1..Len(cfg.stages) : cfg.channels[s] % cfg.stages[s] # 0) =>
        /\ enc.status = "ValueError"
        /\ calls = <<>>

----------------------------------------------------------------------------
\* All the encoders: one constructor call of any of the classes, then
\* forward calls on the object it returned.

EncodersNext ==
    \/ Next
    \/ ParallelNext
    \/ CascadingNext

EncodersSpec == Init /\ [][EncodersNext]_vars

\* The input of a recorded forward call.
CallInput(call) ==
    IF cls \in {"ParallelEncoderLevel", "ParallelEncoder"}
    THEN <<call.x, call.x_in>>
    ELSE <<call.x>>

C19_WitnessLevel ==
    /\ cls = "ParallelEncoderLevel"
    /\ plain.called /\ plain.status = "ok"
    /\ Len(plain.results) >= 2

----------------------------------------------------------------------------
\* The constructors called with an integer in place of the list of channels.

\* Bounds: the integers handed over as channels, the scaling factors and the
\* values of max_channels (0 stands for None).
ScalarChannels == {1, 2}
ChannelScalings == {1, 2, 3}
MaxChannelValues == {0, 2, 4}

RECURSIVE Pow(_, _)
Pow(b, e) == IF e = 0 THEN 1 ELSE b * Pow(b, e - 1)

\* "if isinstance(channels, int): channels = [channels * channel_scaling**i
\*  for i in range(n_stages)]; if max_channels is not None: channels =
\*  [min(ch, max_channels) for ch in channels]"
ExpandChannels(channels, channel_scaling, max_channels, n_stages) ==
    [j \in 1..n_stages |->
        LET ch == channels * Pow(channel_scaling, j - 1)
        IN  IF max_channels # 0 THEN Min2(ch, max_channels) ELSE ch]

ScalarConfig(channels, channel_scaling, max_channels, stages, factors, factors_none) ==
    [channels |-> channels, channel_scaling |-> channel_scaling,
     max_channels |-> max_channels, stages |-> stages,
     downsampling_factors |-> factors, factors_none |-> factors_none,
     stem_factory |-> FALSE]

\* SpatialEncoder.__init__ with an integer as channels: the constructor has
\* no parameter channel_scaling or max_channels, and its first use of
\* channels, len(channels), raises TypeError for an integer.
SpatialEncoder_init_int(c) ==
    [enc |-> NoEncoder("TypeError"), calls |-> <<>>]

\* MultiInputSpatialEncoder.__init__ with an integer as channels: the first
\* statement is the call of SpatialEncoder.__init__.
MultiInputSpatialEncoder_init_int(c) == SpatialEncoder_init_int(c)

\* DenseCascadingEncoder.__init__ with an integer as channels: the list is
\* computed first, then the constructor goes on as for a list.
DenseCascadingEncoder_init_int(c) ==
    DenseCascadingEncoder_init(
        [c EXCEPT !.channels = ExpandChannels(c.channels, c.channel_scaling,
                                              c.max_channels, Len(c.stages))])

ScalarArgs ==
    {ScalarConfig(channels, channel_scaling, max_channels, stages, fa[2], fa[1]) :
        channels \in ScalarChannels,
        channel_scaling \in ChannelScalings,
        max_channels \in MaxChannelValues,
        stages \in SeqsUpTo(1..MaxBlocks, 0, MaxCascadeStages),
        fa \in {<<TRUE, <<>> >>}
                 \cup {<<FALSE, [j \in 1..lf |-> 2]>> : lf \in 0..(MaxCascadeStages - 1)}}

\* SpatialEncoder(channels=<int>, ...)
ConstructSpatialEncoderFromInt ==
    /\ cls = "none"
    /\ \E c \in ScalarArgs :
          LET r == SpatialEncoder_init_int(c)
          IN  /\ cls' = "SpatialEncoder"
              /\ cfg' = c
              /\ enc' = r.enc
              /\ calls' = r.calls
    /\ UNCHANGED <<plain, withSkips>>

\* MultiInputSpatialEncoder(inputs, channels=<int>, ...)
ConstructMultiInputSpatialEncoderFromInt ==
    /\ cls = "none"
    /\ \E c \in ScalarArgs :
          LET r == MultiInputSpatialEncoder_init_int(c)
          IN  /\ cls' = "MultiInputSpatialEncoder"
              /\ cfg' = c
              /\ enc' = r.enc
              /\ calls' = r.calls
    /\ UNCHANGED <<plain, withSkips>>

\* CascadingEncoder(channels=<int>, ...)
ConstructCascadingEncoderFromInt ==
    /\ cls = "none"
    /\ \E c \in ScalarArgs :
          LET r == CascadingEncoder_init(c)
          IN  /\ cls' = "CascadingEncoder"
              /\ cfg' = c
              /\ enc' = r.enc
              /\ calls' = r.calls
    /\ UNCHANGED <<plain, withSkips>>

\* DenseCascadingEncoder(channels=<int>, ...)
ConstructDenseCascadingEncoderFromInt ==
    /\ cls = "none"
    /\ \E c \in ScalarArgs :
          LET r == DenseCascadingEncoder_init_int(c)
          IN  /\ cls' = "DenseCascadingEncoder"
              /\ cfg' = c
              /\ enc' = r.enc
              /\ calls' = r.calls
    /\ UNCHANGED <<plain, withSkips>>

ScalarNext ==
    \/ ConstructSpatialEncoderFromInt
    \/ ConstructMultiInputSpatialEncoderFromInt
    \/ ConstructCascadingEncoderFromInt
    \/ ConstructDenseCascadingEncoderFromInt

ScalarSpec == Init /\ [][ScalarNext]_vars

\* C21, for an integer as channels: for each of the four classes and every
\* list of at least one stage (with no factors given), the constructor
\* returns an encoder whose channels are c * scaling^i for stage i, capped
\* at max_channels when it is given.
C21_ScalarChannels ==
    (cls # "none" /\ Len(cfg.stages) >= 1 /\ cfg.factors_none) =>
        /\ enc.status = "ok"
        /\ enc.channels = ExpandChannels(cfg.channels, cfg.channel_scaling,
                                         cfg.max_channels, Len(cfg.stages))

----------------------------------------------------------------------------
\* Properties of the forward pass of a level of the parallel encoder.

LevelReturned == LevelConstructed /\ plain.called /\ plain.status = "ok"

\* The history of the tensor of scale index i - 1 of the incoming list after
\* the projection and the downsampler constructed for scale index i.
ResampledHist(i) ==
    plain.x[i].hist
      \o (IF cfg.channels[i] # cfg.channels[i + 1]
          THEN <<Op("proj", i, 0, <<>>)>>
          ELSE <<>>)
      \o <<Op("down", i, 0, <<>>)>>

\* C22: in the list a level returns, the tensor of scale index 0 of the band
\* is the block of scale 0 applied to the incoming tensor of scale 0; the
\* tensor of a scale index i > 0 of the band for which the incoming list
\* has a tensor is the block of scale i applied to the aggregate, by the
\* aggregator of scale i, of (the incoming tensor of scale i - 1, projected
\* to channels[i] when the counts differ and resampled by
\* scales[i] / scales[i - 1] with the units of scale i) and the incoming
\* tensor of scale i.  Scale indices are 0-based, list positions 1-based.
C22_LevelReads ==
    LevelReturned =>
        \A i \in BandStart..(BandEnd - 1) :
            /\ (i = 0 /\ Len(plain.x) >= 1) =>
                  plain.results[1].hist
                     = Append(plain.x[1].hist, Op("block", 0, cfg.level_index, <<>>))
            /\ (i > 0 /\ i < Len(plain.x)) =>
                  /\ plain.results[i + 1].hist
                        = <<Op("agg", i, 2, <<ResampledHist(i), plain.x[i + 1].hist>>),
                            Op("block", i, cfg.level_index, <<>>)>>
                  /\ plain.results[i + 1].chans = cfg.channels[i + 1]
                  /\ plain.results[i + 1].div
                        = plain.x[i].div * (cfg.scales[i + 1] \div cfg.scales[i])
                  /\ plain.results[i + 1].div = cfg.scales[i + 1]

\* A level whose band starts at scale 0 and one whose band starts above it
\* returned, with a scale above 0 that the incoming list holds and whose
\* channels differ from those of the scale below.
C22_Witness ==
    /\ LevelReturned
    /\ BandStart = 0
    /\ \E i \in 1..(BandEnd - 1) :
          /\ i < Len(plain.x)
          /\ cfg.channels[i] # cfg.channels[i + 1]
          /\ i >= 2

C22_WitnessShifted ==
    /\ LevelReturned
    /\ BandStart >= 1
    /\ \E i \in BandStart..(BandEnd - 1) :
          /\ i < Len(plain.x)
          /\ cfg.channels[i] # cfg.channels[i + 1]

\* The events of a kind of a trace, as a set of positions.
AggInEvents(trace) == {q \in 1..Len(trace) : trace[q].unit = "agg_in"}
LevelEvents(trace) == {q \in 1..Len(trace) : trace[q].unit = "level"}

\* C23: a level aggregates x_in, through its input aggregator, only at the
\* scale index at which the incoming list ends, which is the scale of the
\* level index, the deepest of its band, and the aggregate is of the
\* resampled tensor of the scale below and x_in.  In a ParallelEncoder no
\* level raises for want of an input aggregator, a level that is handed a
\* late input owns an input aggregator, and the tensor of the deepest scale
\* that level returns is made from the aggregate that holds the late input.
C23_LateInjection ==
    /\ LevelReturned =>
          \A q \in AggInEvents(plain.trace) :
              /\ plain.trace[q].i = Len(plain.x)
              /\ plain.trace[q].i = cfg.level_index
              /\ plain.trace[q].i = BandEnd - 1
              /\ plain.trace[q].inp[2] = plain.x_in
              /\ enc.agg_in.kind = "Aggregator"
    /\ (ParallelConstructed /\ plain.called) =>
          /\ plain.status # "AttributeError"
          /\ \A q \in LevelEvents(plain.trace) :
                LET ev == plain.trace[q]
                    late == ev.inp[1]
                IN  /\ enc.stages[ev.i + 1].agg_in.kind = "None" => IsNone(late)
                    /\ ~IsNone(late) =>
                          /\ ev.i \in DOMAIN enc.inputs
                          /\ ev.out.hist[1].op = "agg"
                          /\ ev.out.hist[1].i = ev.i
                          /\ ev.out.hist[1].args[2] = late.hist
                          /\ LastOp(ev.out).op = "block"

\* A ParallelEncoder with inputs at the levels 0 and 2 and none at level 1
\* returned: level 2 was handed the late input.
C23_Witness ==
    /\ ParallelConstructed
    /\ DOMAIN cfg.inputs = {0, 2}
    /\ plain.called /\ plain.status = "ok"
    /\ \E q \in LevelEvents(plain.trace) :
          plain.trace[q].i = 2 /\ ~IsNone(plain.trace[q].inp[1])
    /\ \E q \in LevelEvents(plain.trace) :
          plain.trace[q].i = 1 /\ IsNone(plain.trace[q].inp[1])

\* A level called on its own aggregated a late input.
C23_WitnessLevel ==
    /\ LevelReturned
    /\ AggInEvents(plain.trace) # {}
    /\ cfg.level_index >= 1

----------------------------------------------------------------------------
\* Properties of the lattice of the parallel encoder.

\* The levels whose block of scale index i a tensor with history h went
\* through (the stems are blocks without a level, k = -1), and how many
\* such blocks there are in the history.
RECURSIVE LevelsOfScale(_, _)
LevelsOfScale(h, i) ==
    UNION {IF h[q].op = "block" /\ h[q].i = i /\ h[q].k >= 0
           THEN {h[q].k}
           ELSE IF h[q].op = "agg"
           THEN UNION {LevelsOfScale(h[q].args[j], i) : j \in 1..Len(h[q].args)}
           ELSE {} : q \in 1..Len(h)}

RECURSIVE BlocksOfScale(_, _, _)
BlocksOfScale(h, i, q) ==
    IF q > Len(h)
    THEN 0
    ELSE (IF h[q].op = "block" /\ h[q].i = i /\ h[q].k >= 0
          THEN 1
          ELSE IF h[q].op = "agg"
          THEN BlocksOfScale(h[q].args[1], i, 1) + BlocksOfScale(h[q].args[2], i, 1)
          ELSE 0)
         + BlocksOfScale(h, i, q + 1)

\* The list level L hands to level L + 1 in the recorded call: the levels
\* run again on the seed, with the late inputs of the recorded call.
RECURSIVE Handed(_)
Handed(L) ==
    LET stems == EventsOf(plain.trace, "stem")
        levels == EventsOf(plain.trace, "level")
    IN  IF L < 0
        THEN <<stems[1].out>>
        ELSE ParallelEncoderLevel_forward(enc.stages[L + 1], Handed(L - 1),
                                          levels[L + 1].inp[1]).results

\* C24: a constructed ParallelEncoder has depth + n_stages - 1 levels, with
\* the level indices 0 .. depth + n_stages - 2 in order, and the block of
\* scale index i is in exactly the levels i .. i + depth - 1.  In a forward
\* call that returns, the list level L hands on has min(L + 1, n_stages)
\* tensors, the output has n_stages tensors, in the order of the scales,
\* and the tensor of scale index i went through exactly depth blocks of
\* scale i, those of the levels i .. i + depth - 1.
C24_Lattice ==
    ParallelConstructed =>
        LET n == Len(cfg.channels)
            D == cfg.depth
        IN  /\ Len(enc.stages) = D + n - 1
            /\ \A l \in 1..Len(enc.stages) : enc.stages[l].level_index = l - 1
            /\ \A i \in 0..(n - 1) :
                  {l \in 0..(Len(enc.stages) - 1) :
                      \E o \in 1..Len(enc.stages[l + 1].blocks) :
                          enc.stages[l + 1].blocks[o].i = i}
                    = i..(i + D - 1)
            /\ \A l \in 1..Len(enc.stages) :
                  \A i \in 0..(n - 1) :
                      Cardinality({o \in 1..Len(enc.stages[l].blocks) :
                                      enc.stages[l].blocks[o].i = i}) <= 1
            /\ (plain.called /\ plain.status = "ok") =>
                  /\ \A L \in 0..(D + n - 2) :
                        /\ Len(Handed(L)) = Min2(L + 1, n)
                        /\ Handed(L)[Len(Handed(L))]
                              = EventsOf(plain.trace, "level")[L + 1].out
                  /\ Handed(D + n - 2) = plain.results
                  /\ Len(plain.results) = n
                  /\ \A i \in 0..(n - 1) :
                        /\ LastOp(plain.results[i + 1]).op = "block"
                        /\ LastOp(plain.results[i + 1]).i = i
                        /\ plain.results[i + 1].chans = cfg.channels[i + 1]
                        /\ plain.results[i + 1].div = cfg.scales[i + 1]
                        /\ LevelsOfScale(plain.results[i + 1].hist, i) = i..(i + D - 1)
                        /\ BlocksOfScale(plain.results[i + 1].hist, i, 1) = D

\* A ParallelEncoder of three scales and depth 2 (four levels) returned.
C24_Witness ==
    /\ ParallelConstructed
    /\ Len(cfg.channels) = 3 /\ cfg.depth = 2
    /\ Len(enc.stages) = 4
    /\ plain.called /\ plain.status = "ok"
    /\ Len(plain.results) = 3

----------------------------------------------------------------------------
\* Further properties of the cascading encoders.

CascadeDivisible ==
    \A s \in 1..Len(cfg.stages) : cfg.channels[s] % cfg.stages[s] = 0

\* C25, for the part of it that can be observed: a CascadingEncoder with
\* matching lengths and at least one block per stage is constructed, its
\* wave 0 holds exactly the first block of stage 0, whose only source is
\* the seed (the output of the stem when a stem factory is given), and
\* every later wave holds at least one block to concatenate sources for.
C25_ConcatSources ==
    (cls = "CascadingEncoder" /\ CascadeArgsValid) =>
        /\ enc.status = "ok"
        /\ (cfg.stem_factory <=> enc.stem.kind # "None")
        /\ Len(enc.module_map[0]) = 1
        /\ enc.module_map[0][1].stage_ind = 0
        /\ \A d \in 1..(enc.depth - 1) : Len(enc.module_map[d]) >= 1

\* C26, for the part of it that the constructor decides: for a
\* DenseCascadingEncoder with divisible channel counts, the block factory
\* is called for every block of stage s with channels_out =
\* channels[s] / n_blocks[s], except for the last block of the stage, for
\* which channels_out = channels[s].
C26_GrowthRate ==
    (cls = "DenseCascadingEncoder" /\ CascadeArgsValid /\ CascadeDivisible) =>
        /\ enc.status = "ok"
        /\ \A b \in CascadeBlocks :
              \E q \in 1..Len(calls) :
                  /\ calls[q].factory = "block"
                  /\ calls[q].i = b[1] /\ calls[q].k = b[2]
                  /\ calls[q].cout =
                        IF b[2] < cfg.stages[b[1] + 1] - 1
                        THEN cfg.channels[b[1] + 1] \div cfg.stages[b[1] + 1]
                        ELSE cfg.channels[b[1] + 1]

\* C27, for the part of it that the constructor decides: for a
\* DenseCascadingEncoder with divisible channel counts, the block factory
\* is called for every block (s, p) with a channels_in that holds the
\* tensors accumulated in stage s, whose channels sum to
\* channels_in + p * growth_rate, where channels_in is the growth rate of
\* stage 0 or the channels of the first output of stage s - 1.
C27_DenseChannelsIn ==
    (cls = "DenseCascadingEncoder" /\ CascadeArgsValid /\ CascadeDivisible) =>
        /\ enc.status = "ok"
        /\ \A b \in CascadeBlocks :
              LET s == b[1] + 1
                  growth_rate == cfg.channels[s] \div cfg.stages[s]
                  channels_in == IF s = 1
                                 THEN growth_rate
                                 ELSE cfg.channels[s - 1] \div cfg.stages[s - 1]
              IN  \E q \in 1..Len(calls) :
                      /\ calls[q].factory = "block"
                      /\ calls[q].i = b[1] /\ calls[q].k = b[2]
                      /\ calls[q].cin >= channels_in + b[2] * growth_rate

----------------------------------------------------------------------------
\* The aggregators of the multi-input encoder.

\* The aggregator calls of a recorded call agree with the constructor.
AggregatorsAsDeclared(call) ==
    \A q \in 1..Len(call.trace) :
        call.trace[q].unit = "agg" =>
            LET ev == call.trace[q]
                scale == enc.scales[ev.i]
            IN  /\ scale \in DOMAIN enc.aggregators
                /\ Len(ev.inp) = Len(enc.aggregators[scale].cins)
                /\ \A j \in 1..Len(ev.inp) :
                      /\ j <= Len(enc.aggregators[scale].cins)
                      /\ ev.inp[j].chans = enc.aggregators[scale].cins[j]
                      /\ ev.inp[j].chans = enc.channels[ev.i]

\* C28: every aggregator call of a forward pass of a
\* MultiInputSpatialEncoder is made on an aggregator that the constructor
\* built for the scale of the stage, with as many tensors as channel counts
\* the aggregator was constructed with, each tensor having the channel
\* count declared at its position, the channel count of the stage.  Stated
\* here for the encoders whose factors are all at least 2.
C28_AggregatorArity ==
    (MultiConstructed /\ AllFactorsAtLeast2) =>
        /\ plain.called => AggregatorsAsDeclared(plain)
        /\ withSkips.called => AggregatorsAsDeclared(withSkips)

----------------------------------------------------------------------------
\* quantnn.data.LazyDataFolder.  The variables hold: cls the class, cfg the
\* lengths of the datasets and the size of the queue, enc the fields of the
\* folder (n_batches, batch_queue), calls the tasks submitted to the pool,
\* plain the frame of the running generator returned by __iter__.

\* Bounds: the number of datasets of a folder, the number of batches of a
\* dataset and the size of the queue of pending batches.
MaxDatasets == 3
MaxBatches == 4
MaxQueueSize == 2

RECURSIVE SumSeq(_)
SumSeq(q) == IF q = <<>> THEN 0 ELSE Head(q) + SumSeq(Tail(q))

\* A generator frame: where it stands, its locals, and what it yielded.
LazyFrame(phase, pos, counters, num_active, yielded) ==
    [called |-> TRUE, phase |-> phase, pos |-> pos, counters |-> counters,
     num_active |-> num_active, yielded |-> yielded]

\* LazyDataFolder(path, dataset_factory, batch_queue_size=...): the datasets
\* of the files, with their lengths.
ConstructLazyDataFolder ==
    /\ cls = "none"
    /\ \E lens \in SeqsUpTo(0..MaxBatches, 0, MaxDatasets),
          batch_queue_size \in 1..MaxQueueSize :
            /\ cls' = "LazyDataFolder"
            /\ cfg' = [lens |-> lens, batch_queue_size |-> batch_queue_size]
            /\ enc' = [status |-> "ok", n_batches |-> SumSeq(lens),
                       batch_queue |-> <<>>]
            /\ calls' = <<>>
    /\ UNCHANGED <<plain, withSkips>>

\* iter(folder) and the first next(): "counters = {id(d): 0 ...};
\* num_active = len(self.datasets)".
LazyIterStart ==
    /\ cls = "LazyDataFolder"
    /\ ~plain.called
    /\ plain' = LazyFrame("while", 0, [d \in 1..Len(cfg.lens) |-> 0],
                          Len(cfg.lens), <<>>)
    /\ UNCHANGED <<cls, cfg, enc, calls, withSkips>>

\* "while num_active > 0:" and, when it fails, on to the second loop.
LazyWhile ==
    /\ cls = "LazyDataFolder"
    /\ plain.called /\ plain.phase = "while"
    /\ plain' = IF plain.num_active > 0
                THEN [plain EXCEPT !.phase = "for", !.pos = 1]
                ELSE [plain EXCEPT !.phase = "drain"]
    /\ UNCHANGED <<cls, cfg, enc, calls, withSkips>>

\* "if i >= len(d): num_active -= 1; continue"
LazyExhausted(d, i, frame) == i >= cfg.lens[d]

\* One pass of the body of "for d in self.datasets:".
LazyFor ==
    /\ cls = "LazyDataFolder"
    /\ plain.called /\ plain.phase = "for"
    /\ LET d == plain.pos
           i == plain.counters[d]
           last == d = Len(cfg.lens)
           after == [plain EXCEPT !.pos = IF last THEN 0 ELSE d + 1,
                                  !.phase = IF last THEN "while" ELSE "for"]
           full == Len(enc.batch_queue) >= cfg.batch_queue_size
           queue == IF full THEN Tail(enc.batch_queue) ELSE enc.batch_queue
       IN  IF LazyExhausted(d, i, plain)
           THEN /\ plain' = [after EXCEPT !.num_active = @ - 1]
                /\ UNCHANGED <<enc, calls>>
           ELSE /\ plain' = [after EXCEPT
                               !.counters[d] = i + 1,
                               !.yielded = IF full
                                           THEN Append(@, Head(enc.batch_queue))
                                           ELSE @]
                /\ enc' = [enc EXCEPT !.batch_queue = Append(queue, <<d, i>>)]
                /\ calls' = Append(calls, <<d, i>>)
    /\ UNCHANGED <<cls, cfg, withSkips>>

\* "while not self.batch_queue.empty(): yield self.batch_queue.get().result()"
LazyDrain ==
    /\ cls = "LazyDataFolder"
    /\ plain.called /\ plain.phase = "drain"
    /\ IF enc.batch_queue # <<>>
       THEN /\ plain' = [plain EXCEPT !.yielded = Append(@, Head(enc.batch_queue))]
            /\ enc' = [enc EXCEPT !.batch_queue = Tail(@)]
       ELSE /\ plain' = [plain EXCEPT !.phase = "done"]
            /\ UNCHANGED enc
    /\ UNCHANGED <<cls, cfg, calls, withSkips>>

LazyNext ==
    \/ ConstructLazyDataFolder
    \/ LazyIterStart
    \/ LazyWhile
    \/ LazyFor
    \/ LazyDrain

LazySpec == Init /\ [][LazyNext]_vars

\* All batches of the folder: batch i of dataset d.
LazyBatches ==
    {<<d, i>> : d \in 1..Len(cfg.lens), i \in 0..(MaxBatches + 1)}
       \cap {b \in (1..Len(cfg.lens)) \X (0..(MaxBatches + 1)) : b[2] < cfg.lens[b[1]]}

LazyDone == cls = "LazyDataFolder" /\ plain.called /\ plain.phase = "done"

\* C30, its safety part: when the iteration over a LazyDataFolder has
\* ended, batch i of dataset d was yielded exactly once for every dataset d
\* and every 0 <= i < len(d), and nothing else was yielded, so that
\* len(folder) batches were yielded; the queue of pending batches never
\* holds more than batch_queue_size entries.
C30_YieldsEveryBatch ==
    /\ cls = "LazyDataFolder" => Len(enc.batch_queue) <= cfg.batch_queue_size
    /\ LazyDone =>
          /\ Len(plain.yielded) = enc.n_batches
          /\ \A b \in LazyBatches :
                Cardinality({q \in 1..Len(plain.yielded) : plain.yielded[q] = b}) = 1
          /\ \A q \in 1..Len(plain.yielded) : plain.yielded[q] \in LazyBatches

\* What does hold of the iteration: the queue stays within its size, no
\* batch is yielded twice, every yielded batch is one of the folder, the
\* batches of a dataset come in the order of their indices, and datasets of
\* equal lengths are yielded completely.
LazyPartial ==
    cls = "LazyDataFolder" =>
        /\ Len(enc.batch_queue) <= cfg.batch_queue_size
        /\ plain.called =>
              /\ \A q, r \in 1..Len(plain.yielded) :
                    (q < r /\ plain.yielded[q][1] = plain.yielded[r][1])
                        => plain.yielded[q][2] < plain.yielded[r][2]
              /\ \A q \in 1..Len(plain.yielded) : plain.yielded[q] \in LazyBatches
              /\ (plain.phase = "done"
                    /\ \A d \in 1..Len(cfg.lens) : cfg.lens[d] = cfg.lens[1])
                  => Len(plain.yielded) = enc.n_batches

\* The iteration over a LazyDataFolder ends when every step that can be
\* taken is eventually taken.
LazyFairSpec == LazySpec /\ WF_vars(LazyNext)

LazyTerminates == (cls = "LazyDataFolder") ~> LazyDone

----------------------------------------------------------------------------
\* quantnn.data.DataFolder and its DatasetLoader processes.  The variables
\* hold: cls the class, cfg the size of the queues, enc the worker
\* processes of the folder (for each its position in run, the batches of
\* its files, its queue and the count of unacknowledged batches of the
\* queue) and the number of times the workers were started, calls the
\* batches put on the queues, plain the frame of the running generator
\* returned by __iter__.

\* Bounds: the number of workers, the number of batches of the files of a
\* worker, the size of a worker's queue and the number of iterations.
MaxWorkers == 2
MaxWorkerBatches == 2
MaxLoaderQueue == 2
MaxEpochs == 2

\* A DatasetLoader that was started: it is at the loop that puts batches.
StartedWorker(total) ==
    [pc |-> "put", total |-> total, produced |-> 0, queue |-> <<>>,
     unfinished |-> 0]

\* The workers started for the files of the folder.
StartedWorkers == UNION {[1..n -> {StartedWorker(t) : t \in 0..MaxWorkerBatches}] : n \in 1..MaxWorkers}

FolderFrame(phase, pos, held, yielded) ==
    [called |-> TRUE, phase |-> phase, pos |-> pos, held |-> held,
     yielded |-> yielded]

\* DataFolder(path, dataset_factory, active_datasets=..., queue_size=...):
\* the files are split among the workers, which are started.
ConstructDataFolder ==
    /\ cls = "none"
    /\ \E queue_size \in 1..MaxLoaderQueue, workers \in StartedWorkers :
          /\ cls' = "DataFolder"
          /\ cfg' = [queue_size |-> queue_size]
          /\ enc' = [status |-> "ok", epoch |-> 1, workers |-> workers]
          /\ calls' = <<>>
    /\ UNCHANGED <<plain, withSkips>>

\* DatasetLoader.run: self.batch_queue.put(b), which waits while the queue
\* is full; after the last batch the process goes on to join().
WorkerPut(w) ==
    /\ cls = "DataFolder"
    /\ w <= Len(enc.workers)
    /\ enc.workers[w].pc = "put"
    /\ LET me == enc.workers[w]
       IN  IF me.produced = me.total
           THEN /\ enc' = [enc EXCEPT !.workers[w].pc = "join"]
                /\ UNCHANGED calls
           ELSE /\ Len(me.queue) < cfg.queue_size
                /\ enc' = [enc EXCEPT
                             !.workers[w].queue = Append(@, <<enc.epoch, w, me.produced>>),
                             !.workers[w].produced = @ + 1,
                             !.workers[w].unfinished = @ + 1]
                /\ calls' = Append(calls, <<enc.epoch, w, me.produced>>)
    /\ UNCHANGED <<cls, cfg, plain, withSkips>>

\* Variant: join() returns although batches are unacknowledged.
JoinReturns_at_once(me) == TRUE

\* JoinableQueue.join(): returns when every batch put on the queue has been
\* acknowledged with task_done().
JoinReturns(me) == me.unfinished = 0

\* DatasetLoader.run: self.batch_queue.join(), then the process ends.
WorkerJoin(w) ==
    /\ cls = "DataFolder"
    /\ w <= Len(enc.workers)
    /\ enc.workers[w].pc = "join"
    /\ JoinReturns(enc.workers[w])
    /\ enc' = [enc EXCEPT !.workers[w].pc = "dead"]
    /\ UNCHANGED <<cls, cfg, calls, plain, withSkips>>

\* iter(folder) and the first next().
FolderIterStart ==
    /\ cls = "DataFolder"
    /\ IF plain.called THEN plain.phase = "done" /\ enc.epoch <= MaxEpochs ELSE TRUE
    /\ plain' = FolderFrame("while", 0, <<>>, <<>>)
    /\ UNCHANGED <<cls, cfg, enc, calls, withSkips>>

\* "done = not any([w.is_alive() for w in self.workers]); if done: break"
FolderWhile ==
    /\ cls = "DataFolder"
    /\ plain.called /\ plain.phase = "while"
    /\ plain' = IF \A w \in 1..Len(enc.workers) : enc.workers[w].pc = "dead"
                THEN [plain EXCEPT !.phase = "closing"]
                ELSE [plain EXCEPT !.phase = "for", !.pos = 1]
    /\ UNCHANGED <<cls, cfg, enc, calls, withSkips>>

\* The frame after the pass of the for loop for the worker at pos.
FolderAdvance(frame) ==
    IF frame.pos = Len(enc.workers)
    THEN [frame EXCEPT !.phase = "while", !.pos = 0]
    ELSE [frame EXCEPT !.phase = "for", !.pos = @ + 1]

\* "b = w.batch_queue.get_nowait()": the first batch of the queue, or
\* queue.Empty, which is also raised while a batch that was put is still on
\* its way through the pipe; on Empty the loop continues.
FolderGet ==
    /\ cls = "DataFolder"
    /\ plain.called /\ plain.phase = "for"
    /\ LET w == plain.pos
       IN  \/ /\ enc.workers[w].queue # <<>>
              /\ plain' = [plain EXCEPT !.phase = "ack",
                                        !.held = <<Head(enc.workers[w].queue)>>]
              /\ enc' = [enc EXCEPT !.workers[w].queue = Tail(@)]
           \/ /\ plain' = FolderAdvance(plain)
              /\ UNCHANGED enc
    /\ UNCHANGED <<cls, cfg, calls, withSkips>>

\* "w.batch_queue.task_done()"
FolderTaskDone ==
    /\ cls = "DataFolder"
    /\ plain.called /\ plain.phase = "ack"
    /\ enc' = [enc EXCEPT !.workers[plain.pos].unfinished = @ - 1]
    /\ plain' = [plain EXCEPT !.phase = "yield"]
    /\ UNCHANGED <<cls, cfg, calls, withSkips>>

\* "yield b"
FolderYield ==
    /\ cls = "DataFolder"
    /\ plain.called /\ plain.phase = "yield"
    /\ plain' = FolderAdvance([plain EXCEPT !.yielded = Append(@, plain.held[1]),
                                            !.held = <<>>])
    /\ UNCHANGED <<cls, cfg, enc, calls, withSkips>>

\* After the loop: the workers are closed and new ones are started for the
\* next iteration.
FolderRestart ==
    /\ cls = "DataFolder"
    /\ plain.called /\ plain.phase = "closing"
    /\ \E workers \in StartedWorkers :
          /\ Len(workers) = Len(enc.workers)
          /\ enc' = [enc EXCEPT !.epoch = @ + 1, !.workers = workers]
    /\ plain' = [plain EXCEPT !.phase = "done"]
    /\ UNCHANGED <<cls, cfg, calls, withSkips>>

FolderNext ==
    \/ ConstructDataFolder
    \/ \E w \in 1..MaxWorkers : WorkerPut(w)
    \/ \E w \in 1..MaxWorkers : WorkerJoin(w)
    \/ FolderIterStart
    \/ FolderWhile
    \/ FolderGet
    \/ FolderTaskDone
    \/ FolderYield
    \/ FolderRestart

FolderSpec == Init /\ [][FolderNext]_vars

\* The batches the workers of the current start put on their queues.
EpochPuts == {q \in 1..Len(calls) : calls[q][1] = enc.epoch}

\* C29: a DatasetLoader process ends only when all the batches of its files
\* were put on its queue, taken from it and acknowledged; the iterator
\* leaves its loop only when every worker has ended, and then no batch is
\* left in a queue or in its hands and it has yielded every batch the
\* workers put on their queues exactly once, and nothing else; at any time
\* no batch is yielded twice and the batches of one worker are yielded in
\* the order in which they were put.
C29_EveryBatchOnce ==
    cls = "DataFolder" =>
        /\ \A w \in 1..Len(enc.workers) :
              enc.workers[w].pc = "dead" =>
                  /\ enc.workers[w].produced = enc.workers[w].total
                  /\ enc.workers[w].queue = <<>>
                  /\ enc.workers[w].unfinished = 0
        /\ plain.called =>
              /\ \A q, r \in 1..Len(plain.yielded) :
                    (q < r /\ plain.yielded[q][2] = plain.yielded[r][2])
                        => plain.yielded[q][3] < plain.yielded[r][3]
              /\ \A q \in 1..Len(plain.yielded) :
                    \E r \in 1..Len(calls) : calls[r] = plain.yielded[q]
              /\ plain.phase = "for" => plain.pos \in 1..Len(enc.workers)
              /\ plain.phase = "closing" =>
                    /\ \A w \in 1..Len(enc.workers) :
                          /\ enc.workers[w].pc = "dead"
                          /\ enc.workers[w].queue = <<>>
                    /\ plain.held = <<>>
                    /\ Len(plain.yielded) = Cardinality(EpochPuts)
                    /\ \A r \in EpochPuts :
                          Cardinality({q \in 1..Len(plain.yielded) :
                                          plain.yielded[q] = calls[r]}) = 1

\* The second iteration over a folder of two workers with two batches each
\* and queues of size 1 left its loop, having taken the batches of the two
\* workers in turn.
C29_Witness ==
    /\ cls = "DataFolder"
    /\ cfg.queue_size = 1
    /\ enc.epoch = 2
    /\ Len(enc.workers) = 2
    /\ \A w \in 1..2 : enc.workers[w].total = 2
    /\ plain.called /\ plain.phase = "closing"
    /\ Len(plain.yielded) = 4
    /\ plain.yielded[1][2] # plain.yielded[2][2]

====
